---- MODULE Spec2Model ----
(***************************************************************************)
(* State-machine model of VoiceStressEngine (voice-stress-engine.js):      *)
(* the ring buffer fed by the audio callback, the per-frame feature        *)
(* extraction of processAudioFrame, the two baselines, the capped          *)
(* histories, and the two assessments (_quickAssess, fullAnalysis).        *)
(*                                                                         *)
(* Numbers.  JavaScript numbers are modelled by exact rationals <<n, d>>   *)
(* (d > 0, lowest terms); floating-point rounding error is not modelled.   *)
(* Audio samples and RMS amplitudes are integers in thousandths of full    *)
(* scale (1000 = 1.0).                                                     *)
(*                                                                         *)
(* Scale.  The engine's sizes (a 96000-sample ring buffer, 2048-sample     *)
(* frames, a 150-sample baseline, histories capped at 300 and 900 entries, *)
(* a timeline entry every 30 frames) are far beyond exhaustive search, so  *)
(* every size is a named definition with a small value; the comment on     *)
(* each gives the value the source uses.  The code is translated with the  *)
(* names in place of the literals.                                         *)
(***************************************************************************)
EXTENDS Integers, Sequences, FiniteSets, TLC

\* ------------------------------------------------------------------ sizes
\* this.ringBufferSize = 96000 (two seconds at 48 kHz)
ringBufferSize == 6
\* this.fftSize = 2048: the length of the time-domain analysis frame
fftSize == 4
\* this.BASELINE_SPEECH_FRAMES = 150
BASELINE_SPEECH_FRAMES == 3
\* cap of pitchPeriods and of cycleAmplitudes: 300
VoiceQueueCap == 4
\* cap of spectralHistory: 900
SpectralCap == 4
\* cap of tremorHistory: 300
TremorCap == 2
\* this.timelineWindowFrames = 30, and the literal 30 of timeSeconds
timelineWindowFrames == 2
\* _quickAssess returns the default result below 5 frames
QuickMinFrames == 2
\* _quickAssess looks at the last 30 F0 samples and spectral snapshots
QuickRecentFrames == 2
\* _quickAssess looks at the last 10 tremor snapshots
QuickRecentTremor == 2
\* _quickAssess scores jitter, shimmer and spectral shift above 10 entries
QuickMinEntries == 1
\* fullAnalysis returns the default report below 10 speech frames
FullMinSpeechFrames == 2
\* fullAnalysis: confidence reaches its 50 speech points at 300 frames
ConfidenceSpeechFrames == 4
\* fullAnalysis: confidence gains 10 points above 10 tremor snapshots
ConfidenceTremorCount == 1

\* ------------------------------------------------------------------ bounds
\* frames processed between two clearAll calls
MaxFrames == 4
\* samples pushed into the ring buffer since it was allocated or cleared
MaxSamples == 9
\* longest sample block one audio callback delivers
MaxBlock == 3
\* frames processed between two clearAll calls where the ring buffer is explored
MaxRingFrames == 2
\* frames processed between two clearAll calls in a session of voiced speech
MaxVoicedFrames == 6
\* frames processed between two clearAll calls where the pitch range is explored
MaxPitchFrames == 4
\* frames processed per session where the callers of the assessments are explored
MaxReportFrames == 4

\* ------------------------------------------------------------------ program constants
F0_MIN == 75
F0_MAX == 400
\* this.VAD_THRESHOLD = 0.015, in thousandths
VAD_THRESHOLD == 15

\* ------------------------------------------------------------------ rationals
RECURSIVE GCD(_, _)
GCD(a, b) == IF b = 0 THEN a ELSE GCD(b, a % b)

IAbs(x) == IF x < 0 THEN -x ELSE x

IMin(a, b) == IF a <= b THEN a ELSE b

IMax(a, b) == IF a >= b THEN a ELSE b

\* the rational n/d in lowest terms, d > 0
Q(n, d) ==
    LET s == IF d < 0 THEN -1 ELSE 1
        g == GCD(IAbs(n), IAbs(d))
    IN  <<(s * n) \div g, (s * d) \div g>>

R(n) == <<n, 1>>

RAdd(x, y) == Q(x[1] * y[2] + y[1] * x[2], x[2] * y[2])

RSub(x, y) == Q(x[1] * y[2] - y[1] * x[2], x[2] * y[2])

RMul(x, y) == Q(x[1] * y[1], x[2] * y[2])

\* x / y for y # 0
RDiv(x, y) == Q(x[1] * y[2], x[2] * y[1])

RAbs(x) == <<IAbs(x[1]), x[2]>>

RLt(x, y) == x[1] * y[2] < y[1] * x[2]

RLe(x, y) == x[1] * y[2] <= y[1] * x[2]

RMin(x, y) == IF RLe(x, y) THEN x ELSE y

\* Math.round: the nearest integer, halves rounded up
RRound(x) == (2 * x[1] + x[2]) \div (2 * x[2])

RECURSIVE RSum(_)
RSum(s) == IF s = <<>> THEN R(0) ELSE RAdd(s[1], RSum(Tail(s)))

RECURSIVE ISum(_)
ISum(s) == IF s = <<>> THEN 0 ELSE s[1] + ISum(Tail(s))

\* the mean of a non-empty sequence of rationals
RMean(s) == RDiv(RSum(s), R(Len(s)))

\* Array.prototype.slice(k) and slice(-k)
SliceFrom(s, k) == IF k >= Len(s) THEN <<>> ELSE SubSeq(s, k + 1, Len(s))

SliceLast(s, k) == IF k >= Len(s) THEN s ELSE SubSeq(s, Len(s) - k + 1, Len(s))

\* push followed by "if (length > cap) shift()"
\* a variant that drops the new entry when the queue is full
PushCappedKeepsOldest(s, x, cap) == IF Len(s) >= cap THEN s ELSE Append(s, x)

PushCapped(s, x, cap) ==
    LET t == Append(s, x) IN IF Len(t) > cap THEN Tail(t) ELSE t

Map(s, F(_)) == [i \in 1..Len(s) |-> F(s[i])]

\* null and a non-null reference
Null == <<>>

Some(x) == <<x>>

\* ------------------------------------------------------------------ state
VARIABLES
    isActive,            \* this.isActive
    analyserNode,        \* this.analyserNode is not null
    audioNodes,          \* which of audioContext, sourceNode, muteGain, scriptProcessor are not null
    initOutcome,         \* history: how the last initAudioContext / initFromMediaElement call ended
    sampleRate,          \* this.sampleRate
    ringBuffer,          \* this.ringBuffer: Null or a sequence, index p of the code at p + 1
    ringBufferWritePos,
    ringBufferFilled,
    isSpeechActive,
    speechFrameCount,
    silenceFrameCount,
    totalFrameCount,
    silencePauses,
    inSilencePause,
    pauseDurations,
    currentPauseStart,
    f0History,           \* records [time, f0, amplitude]
    f0Baseline,          \* Null or Some([meanF0, varF0]); sdF0 of the code is sqrt(varF0)
    baselineF0Values,
    baselineEstablished,
    pitchPeriods,
    cycleAmplitudes,
    spectralHistory,     \* records [centroid, hammarberg]
    spectralBaseline,    \* Null or Some([centroid, hammarberg])
    tremorHistory,       \* records [time, energyRatio, peakFreq]
    vsaTimeline,
    report,              \* Null or Some(the object the latest fullAnalysis call returned), as its holder sees it
    reportShares,        \* report.vsaTimeline and this.vsaTimeline are the same array
    quickResult,         \* Null or Some(the object the latest _quickAssess call returned)
    reportFresh,         \* history: no frame processed and no clearAll since the latest fullAnalysis call
    quickFresh,          \* history: no frame processed and no clearAll since the latest _quickAssess call
    pushed,              \* history: the samples _fillRingBuffer wrote since the buffer was allocated or cleared
    zeroFramesOnly,      \* history: every frame processed since construction or clearAll was all zeros
    voicedSinceClear,    \* history: the F0 values stored since construction or the last clearAll
    silentRun,           \* history: the consecutive silent frames processed since the last speech frame, clearAll or construction
    justCleared,         \* history: the last operation was a clearAll that discarded frames and samples
    clearedBaseline      \* history: the last operation was a clearAll that discarded an established F0 baseline

ringVars == <<ringBuffer, ringBufferWritePos, ringBufferFilled, pushed>>

vadVars == <<isSpeechActive, speechFrameCount, silenceFrameCount, totalFrameCount,
             silencePauses, inSilencePause, pauseDurations, currentPauseStart>>

f0Vars == <<f0History, f0Baseline, baselineF0Values, baselineEstablished,
            pitchPeriods, cycleAmplitudes>>

histVars == <<spectralHistory, spectralBaseline, tremorHistory, vsaTimeline, zeroFramesOnly,
              silentRun, voicedSinceClear>>

sessionVars == <<vadVars, f0Vars, histVars>>

callerVars == <<report, reportShares, quickResult, reportFresh, quickFresh>>

vars == <<isActive, analyserNode, audioNodes, initOutcome, sampleRate, ringVars, sessionVars,
          callerVars, justCleared, clearedBaseline>>

\* ------------------------------------------------------------------ inputs
\* The sample rates an AudioContext may report, relative to the ring buffer:
\* two seconds shorter than the buffer (44.1 kHz against 96000), exactly the
\* buffer (48 kHz), longer than the buffer, and one second longer than the buffer.
SampleRates ==
    {ringBufferSize \div 2 - 1, ringBufferSize \div 2, ringBufferSize \div 2 + 1, ringBufferSize + 1}

\* Time-domain frames of fftSize samples (thousandths of full scale).
ZeroFrame == [i \in 1..fftSize |-> 0]

\* one zero crossing in the middle: zero-crossing rate 1 / fftSize
HalfFrame(a) == [i \in 1..fftSize |-> IF 2 * i <= fftSize THEN a ELSE -a]

\* a crossing between any two samples: zero-crossing rate (fftSize - 1) / fftSize
AltFrame(a) == [i \in 1..fftSize |-> IF i % 2 = 1 THEN a ELSE -a]

\* What the envelope/FFT stage of _analyzeMicroTremor reports for a window:
\* energyRatio = bandEnergy / totalEnergy lies in [0, 1], peakFreq in the tremor band.
TremorNone == [energyRatio |-> R(0), peakFreq |-> R(8)]

TremorMild == [energyRatio |-> Q(1, 10), peakFreq |-> R(10)]

TremorHigh == [energyRatio |-> Q(2, 5), peakFreq |-> R(11)]

\* One analysis tick: what the audio pipeline holds when processAudioFrame
\* runs.  td is the time-domain frame.  lagF0 stands for the autocorrelation
\* search on that frame: Null when no lag qualifies, else
\* Some(sampleRate / bestLag) for the refined lag.  centroid and hammarberg
\* stand for the frequency frame (the values _analyzeSpectralFeatures derives
\* from it), tremor for the ring-buffer window (the values the envelope/FFT
\* stage derives from it, when the analysis runs).
Tick(td, lagF0, centroid, hammarberg, tremor) ==
    [td |-> td, lagF0 |-> lagF0, centroid |-> R(centroid), hammarberg |-> R(hammarberg),
     tremor |-> tremor]

Ticks ==
    { Tick(ZeroFrame, Null, 0, 0, TremorNone),                  \* digital silence
      Tick(AltFrame(100), Null, 3000, 0, TremorNone),           \* loud noise: rejected by the zero-crossing rate
      Tick(HalfFrame(100), Some(R(200)), 1000, 10, TremorMild), \* voiced, 200 Hz
      Tick(HalfFrame(200), Some(R(240)), 1500, 20, TremorHigh), \* voiced, 240 Hz, louder
      Tick(HalfFrame(100), Null, 3000, 5, TremorMild),          \* speech without a pitch peak
      Tick(HalfFrame(100), Some(R(500)), 3000, 5, TremorMild),  \* a peak above F0_MAX
      Tick(HalfFrame(20), Some(R(200)), 3000, 5, TremorMild) }  \* speech too weak for the energy gate

\* the k-th sample of the audio stream since the buffer was allocated or cleared
StreamSample(k) == k

\* ------------------------------------------------------------------ utilities
RECURSIVE SumSq(_)
SumSq(buffer) == IF buffer = <<>> THEN 0 ELSE buffer[1] * buffer[1] + SumSq(Tail(buffer))

\* floor of the square root, by bisection on [lo, hi]
RECURSIVE SqrtBetween(_, _, _)
SqrtBetween(n, lo, hi) ==
    IF lo >= hi THEN lo
    ELSE LET mid == (lo + hi + 1) \div 2
         IN  IF mid * mid <= n THEN SqrtBetween(n, mid, hi) ELSE SqrtBetween(n, lo, mid - 1)

ISqrt(n) == SqrtBetween(n, 0, 1000)

\* _computeRMS, in thousandths (exact on the frames of Ticks)
ComputeRMS(buffer) == ISqrt(SumSq(buffer) \div Len(buffer))

\* 2 * Math.cos(2 * PI * k / m) for the m where it is an integer
TwoCos(k, m) ==
    CASE m = 1 -> 2
      [] m = 2 -> IF k % 2 = 0 THEN 2 ELSE -2
      [] m = 3 -> IF k % 3 = 0 THEN 2 ELSE -1
      [] m = 4 -> <<2, 0, -2, 0>>[(k % 4) + 1]
      [] m = 6 -> <<2, 1, -1, -2, -1, 1>>[(k % 6) + 1]

\* _hannWindow: 4 * windowed[i], for the code's index i = 0 .. length - 1
HannWindow4(buffer) ==
    [j \in 1..Len(buffer) |-> buffer[j] * (2 - TwoCos(j - 1, Len(buffer) - 1))]

\* _detectVoiceActivity
ZeroCrossings(buffer) ==
    Cardinality({i \in 2..Len(buffer) : (buffer[i] >= 0) # (buffer[i - 1] >= 0)})

DetectVoiceActivity(buffer) ==
    LET rms == ComputeRMS(buffer)
        zcr == ZeroCrossings(buffer)
    IN  IF rms < VAD_THRESHOLD THEN FALSE
        ELSE /\ rms >= VAD_THRESHOLD
             /\ 100 * zcr > 2 * Len(buffer)      \* zcrRate > 0.02
             /\ 2 * zcr < Len(buffer)            \* zcrRate < 0.5

\* the final range check of _trackFundamentalFrequency
\* a variant without the upper limit
InVoiceRangeAbove(f0) == RLe(R(F0_MIN), f0)

InVoiceRange(f0) == RLe(R(F0_MIN), f0) /\ RLe(f0, R(F0_MAX))

\* _trackFundamentalFrequency: R(-1) is the no-detection sentinel.
\* energy < 0.001 is 16 * energy < 16000 in squared thousandths.
TrackFundamentalFrequency(tick) ==
    IF SumSq(HannWindow4(tick.td)) < 16000 THEN R(-1)
    ELSE IF tick.lagF0 = Null THEN R(-1)
    ELSE IF InVoiceRange(tick.lagF0[1]) THEN tick.lagF0[1] ELSE R(-1)

\* _analyzeSpectralFeatures
AnalyzeSpectralFeatures(tick) == [centroid |-> tick.centroid, hammarberg |-> tick.hammarberg]

\* ------------------------------------------------------------------ ring buffer
\* _allocateBuffers: a zeroed Float32Array
ZeroBuffer == [i \in 1..ringBufferSize |-> 0]

\* the cursor after one write
\* a variant that wraps one position late
NextWritePosLate(pos) == IF pos + 1 > ringBufferSize THEN 0 ELSE pos + 1

NextWritePos(pos) == IF pos + 1 >= ringBufferSize THEN 0 ELSE pos + 1

\* _fillRingBuffer: the loop over samples, as <<buffer, writePos, filled>>
RECURSIVE FillLoop(_, _, _, _)
FillLoop(buf, pos, filled, samples) ==
    IF samples = <<>> THEN <<buf, pos, filled>>
    ELSE FillLoop([buf EXCEPT ![pos + 1] = samples[1]],
                  NextWritePos(pos),
                  filled \/ pos + 1 >= ringBufferSize,
                  Tail(samples))

\* _analyzeMicroTremor, lines 578-579
AvailableSamples == IF ringBufferFilled THEN ringBufferSize ELSE ringBufferWritePos

AnalysisLength == IMin(AvailableSamples, sampleRate * 2)

\* _analyzeMicroTremor, lines 584-586
ReadStart ==
    IF ringBufferFilled
    THEN (ringBufferWritePos - AnalysisLength + ringBufferSize) % ringBufferSize
    ELSE 0

\* _analyzeMicroTremor, lines 583-590: the window it copies out of the ring buffer
TremorWindow ==
    [i \in 1..AnalysisLength |-> ringBuffer[((ReadStart + i - 1) % ringBufferSize) + 1]]

\* processAudioFrame, line 291
TremorGate == ringBufferFilled \/ ringBufferWritePos > sampleRate

\* _analyzeMicroTremor: Null when less than a second is buffered, else the
\* snapshot the envelope/FFT stage yields for the window
AnalyzeMicroTremor(outcome) ==
    IF AnalysisLength < sampleRate THEN Null ELSE Some(outcome)

\* ------------------------------------------------------------------ baselines, jitter, shimmer
\* _establishBaseline: mean and population variance of the collected values
EstablishBaseline(vals) ==
    LET mean == RMean(vals)
        SqDev(v) == RMul(RSub(v, mean), RSub(v, mean))
        variance == RDiv(RSum(Map(vals, SqDev)), R(Len(vals)))
    IN  Some([meanF0 |-> mean, varF0 |-> variance])

\* processAudioFrame, line 252
\* a variant that is content with one value less
BaselineReadyEarly(vals) == Len(vals) >= BASELINE_SPEECH_FRAMES - 1

\* a variant that waits for one value more
BaselineReadyLate(vals) == Len(vals) > BASELINE_SPEECH_FRAMES

BaselineReady(vals) == Len(vals) >= BASELINE_SPEECH_FRAMES

\* processAudioFrame, line 273
\* a variant without the null test
SpectralBaselineDueAgain(baseline, history) == Len(history) >= BASELINE_SPEECH_FRAMES

SpectralBaselineDue(baseline, history) ==
    baseline = Null /\ Len(history) >= BASELINE_SPEECH_FRAMES

\* processAudioFrame, lines 274-278: the mean of the first BASELINE_SPEECH_FRAMES snapshots
SpectralBaselineOf(history) ==
    LET baseSamples == SubSeq(history, 1, IMin(Len(history), BASELINE_SPEECH_FRAMES))
        Centroid(sp) == sp.centroid
        Hammarberg(sp) == sp.hammarberg
    IN  Some([centroid |-> RMean(Map(baseSamples, Centroid)),
              hammarberg |-> RMean(Map(baseSamples, Hammarberg))])

\* the sum of |s[i] - s[i-1]| over consecutive entries
RECURSIVE SumAbsDiff(_)
SumAbsDiff(s) ==
    IF Len(s) < 2 THEN R(0)
    ELSE RAdd(RAbs(RSub(s[2], s[1])), SumAbsDiff(Tail(s)))

\* _computeJitter: relativeJitter, in percent
\* a variant that divides the summed differences by N instead of N - 1
ComputeJitterOverN(periods) ==
    IF Len(periods) < 2 THEN R(0)
    ELSE LET absoluteJitter == RDiv(SumAbsDiff(periods), R(Len(periods)))
             meanPeriod == RMean(periods)
         IN  IF RLt(R(0), meanPeriod)
             THEN RMul(RDiv(absoluteJitter, meanPeriod), R(100))
             ELSE R(0)

ComputeJitter(periods) ==
    IF Len(periods) < 2 THEN R(0)
    ELSE LET absoluteJitter == RDiv(SumAbsDiff(periods), R(Len(periods) - 1))
             meanPeriod == RMean(periods)
         IN  IF RLt(R(0), meanPeriod)
             THEN RMul(RDiv(absoluteJitter, meanPeriod), R(100))
             ELSE R(0)

\* _computeShimmer: relativeShimmer, in percent
ComputeShimmer(amps) ==
    IF Len(amps) < 2 THEN R(0)
    ELSE LET meanAmp == RMean(amps)
         IN  IF RLt(R(0), meanAmp)
             THEN RMul(RDiv(RDiv(SumAbsDiff(amps), R(Len(amps) - 1)), meanAmp), R(100))
             ELSE R(0)

\* Math.abs(20 * Math.log10(a / b)) for positive amplitudes, to four
\* decimals: 0 for equal amplitudes, 6.0206 dB for a ratio of two, 13.9794 dB
\* for a ratio of five, 20 dB for a ratio of ten (the ratios of the
\* amplitudes the analysis ticks carry)
AbsDecibels(a, b) ==
    LET hi == IMax(a, b)
        lo == IMin(a, b)
    IN  CASE hi = lo -> R(0)
          [] hi = 2 * lo -> Q(60206, 10000)
          [] hi = 5 * lo -> Q(139794, 10000)
          [] hi = 10 * lo -> R(20)

\* _computeShimmer, lines 522-526: the summed |dB| steps over the pairs of positive amplitudes
RECURSIVE SumAbsLogDiff(_)
SumAbsLogDiff(amps) ==
    IF Len(amps) < 2 THEN R(0)
    ELSE RAdd(IF amps[2] > 0 /\ amps[1] > 0 THEN AbsDecibels(amps[2], amps[1]) ELSE R(0),
              SumAbsLogDiff(Tail(amps)))

\* _computeShimmer: shimmerDB
ComputeShimmerDB(amps) ==
    IF Len(amps) < 2 THEN R(0)
    ELSE RDiv(SumAbsLogDiff(amps), R(Len(amps) - 1))

\* ------------------------------------------------------------------ scores
F0Of(h) == h.f0

F0Values == Map(f0History, F0Of)

\* |(mean - baseline) / baseline * 100|
DeviationPercent(mean, baseline) ==
    RAbs(RMul(RDiv(RSub(mean, baseline), baseline), R(100)))

\* Math.min(100, f0DeviationPercent * 5)
F0Score(deviationPercent) == RMin(R(100), RMul(deviationPercent, R(5)))

\* Math.min(100, Math.round(avgEnergy * 200 + (avgPeakFreq > 9.5 ? (avgPeakFreq - 9.5) * 30 : 0)))
\* a variant without the Math.min
TremorScoreUncapped(snapshots) ==
    IF snapshots = <<>> THEN 0
    ELSE LET Energy(t) == t.energyRatio
             Peak(t) == t.peakFreq
             avgEnergy == RMean(Map(snapshots, Energy))
             avgPeakFreq == RMean(Map(snapshots, Peak))
             excess == IF RLt(Q(19, 2), avgPeakFreq)
                       THEN RMul(RSub(avgPeakFreq, Q(19, 2)), R(30))
                       ELSE R(0)
         IN  RRound(RAdd(RMul(avgEnergy, R(200)), excess))

TremorScoreOf(snapshots) ==
    IF snapshots = <<>> THEN 0
    ELSE LET Energy(t) == t.energyRatio
             Peak(t) == t.peakFreq
             avgEnergy == RMean(Map(snapshots, Energy))
             avgPeakFreq == RMean(Map(snapshots, Peak))
             excess == IF RLt(Q(19, 2), avgPeakFreq)
                       THEN RMul(RSub(avgPeakFreq, Q(19, 2)), R(30))
                       ELSE R(0)
         IN  IMin(100, RRound(RAdd(RMul(avgEnergy, R(200)), excess)))

\* Math.min(100, Math.abs(jitter - 1.0) * 80)
JitterScore(relativeJitter) == RMin(R(100), RMul(RAbs(RSub(relativeJitter, R(1))), R(80)))

\* Math.min(100, Math.abs(shimmer - 3.0) * 15)
ShimmerScore(relativeShimmer) == RMin(R(100), RMul(RAbs(RSub(relativeShimmer, R(3))), R(15)))

\* the weighted sum, rounded and capped at 100; tremor is an integer, the rest rationals
\* a variant with the weights of the F0 and tremor scores exchanged
CompositeWeightsExchanged(f0Score, tremorScore, jitterScore, spectralScore, shimmerScore) ==
    IMin(100, RRound(
        RAdd(RMul(f0Score, Q(25, 100)),
        RAdd(RMul(R(tremorScore), Q(30, 100)),
        RAdd(RMul(jitterScore, Q(20, 100)),
        RAdd(RMul(spectralScore, Q(15, 100)),
             RMul(shimmerScore, Q(10, 100))))))))

Composite(f0Score, tremorScore, jitterScore, spectralScore, shimmerScore) ==
    IMin(100, RRound(
        RAdd(RMul(f0Score, Q(30, 100)),
        RAdd(RMul(R(tremorScore), Q(25, 100)),
        RAdd(RMul(jitterScore, Q(20, 100)),
        RAdd(RMul(spectralScore, Q(15, 100)),
             RMul(shimmerScore, Q(10, 100))))))))

CentroidOf(sp) == sp.centroid

HammarbergOf(sp) == sp.hammarberg

\* ------------------------------------------------------------------ _quickAssess
DefaultQuickResult ==
    [voiceStress |-> 0, f0Deviation |-> R(0), tremorScore |-> 0, jitter |-> R(0),
     spectralShift |-> R(0), isSpeaking |-> FALSE, hasBaseline |-> FALSE, currentF0 |-> 0,
     f0DeviationScore |-> R(0), jitterScore |-> R(0), shimmerScore |-> R(0)]

\* The fields _quickAssess reads, as a record: _quickAssess is also called from
\* inside processAudioFrame, on the state that frame has just written.
Engine ==
    [totalFrameCount |-> totalFrameCount, isSpeechActive |-> isSpeechActive,
     f0History |-> f0History, f0Baseline |-> f0Baseline,
     baselineEstablished |-> baselineEstablished, pitchPeriods |-> pitchPeriods,
     cycleAmplitudes |-> cycleAmplitudes, spectralHistory |-> spectralHistory,
     spectralBaseline |-> spectralBaseline, tremorHistory |-> tremorHistory]

\* lines 322-332
QuickF0DeviationPercent(e) ==
    IF Len(e.f0History) > 0 /\ e.baselineEstablished /\ e.f0Baseline # Null
    THEN DeviationPercent(RMean(SliceLast(Map(e.f0History, F0Of), QuickRecentFrames)),
                          e.f0Baseline[1].meanF0)
    ELSE R(0)

\* lines 349-358
QuickJitterPercent(e) ==
    IF Len(e.pitchPeriods) > QuickMinEntries THEN ComputeJitter(e.pitchPeriods) ELSE R(0)

QuickJitterScore(e) ==
    IF Len(e.pitchPeriods) > QuickMinEntries THEN JitterScore(QuickJitterPercent(e)) ELSE R(0)

\* lines 361-367
QuickSpectralShiftScore(e) ==
    IF e.spectralBaseline # Null /\ Len(e.spectralHistory) > QuickMinEntries
    THEN LET recentCentroid ==
                 RMean(Map(SliceLast(e.spectralHistory, QuickRecentFrames), CentroidOf))
             centroidShift == RAbs(RSub(recentCentroid, e.spectralBaseline[1].centroid))
         IN  RMin(R(100), RDiv(centroidShift, R(10)))
    ELSE R(0)

\* lines 370-376
QuickShimmerScore(e) ==
    IF Len(e.cycleAmplitudes) > QuickMinEntries
    THEN ShimmerScore(ComputeShimmer(Map(e.cycleAmplitudes, R)))
    ELSE R(0)

\* _quickAssess on the engine state e.  The three sub-scores the code keeps in
\* locals are carried in the record (f0DeviationScore, jitterScore, shimmerScore).
QuickAssessOf(e) ==
    IF e.totalFrameCount < QuickMinFrames THEN DefaultQuickResult
    ELSE LET f0DeviationPercent == QuickF0DeviationPercent(e)
             f0DeviationScore == F0Score(f0DeviationPercent)
             currentF0 == IF Len(e.f0History) > 0
                          THEN e.f0History[Len(e.f0History)].f0 ELSE R(0)
             tremorScore == TremorScoreOf(SliceLast(e.tremorHistory, QuickRecentTremor))
         IN  [voiceStress |-> Composite(f0DeviationScore, tremorScore, QuickJitterScore(e),
                                        QuickSpectralShiftScore(e), QuickShimmerScore(e)),
              f0Deviation |-> Q(RRound(RMul(f0DeviationPercent, R(10))), 10),
              tremorScore |-> tremorScore,
              jitter |-> Q(RRound(RMul(QuickJitterPercent(e), R(100))), 100),
              spectralShift |-> QuickSpectralShiftScore(e),
              isSpeaking |-> e.isSpeechActive,
              hasBaseline |-> e.baselineEstablished,
              currentF0 |-> RRound(currentF0),
              f0DeviationScore |-> f0DeviationScore,
              jitterScore |-> QuickJitterScore(e),
              shimmerScore |-> QuickShimmerScore(e)]

\* _quickAssess called between frames
QuickAssess == QuickAssessOf(Engine)

\* ------------------------------------------------------------------ fullAnalysis
\* fps = 30 (durations only)
FramesPerSecond == 30

\* lines 671-672
SpeechRatio ==
    IF totalFrameCount > 0 THEN RRound(Q(speechFrameCount * 100, totalFrameCount)) ELSE 0

\* _defaultFullResult
DefaultFullResult(speechRatio) ==
    [voiceStressScore |-> 0,
     confidenceLevel |-> 0,
     baselineEstablished |-> FALSE,
     fundamentalFrequency |-> [baselineMean |-> Null, deviationPercent |-> R(0),
                               assessment |-> "Insufficient speech data"],
     microTremor |-> [tremorScore |-> 0, assessment |-> "Insufficient data"],
     voiceQuality |-> [jitter |-> R(0), shimmer |-> R(0), shimmerDB |-> R(0),
                       jitterAssessment |-> "No data", shimmerAssessment |-> "No data"],
     spectralAnalysis |-> [baselineCentroid |-> Null, centroidShift |-> 0,
                           hammarbergShift |-> R(0), assessment |-> "Insufficient data"],
     speechMetrics |-> [speechRatio |-> speechRatio,
                        totalDuration |-> Q(totalFrameCount, FramesPerSecond),
                        silencePauses |-> 0],
     vsaTimeline |-> <<>>,
     indicators |-> <<"INSUFFICIENT SPEECH">>,
     f0Score |-> R(0), jitterScore |-> R(0), shimmerScore |-> R(0), spectralScore |-> R(0)]

\* line 691: this.f0History.slice(BASELINE_SPEECH_FRAMES)
\* a variant that keeps the baseline samples in the window
FullWholeF0 == F0Values

FullPostBaselineF0 == SliceFrom(F0Values, BASELINE_SPEECH_FRAMES)

\* lines 688-696
FullF0DeviationPercent ==
    IF baselineEstablished /\ f0Baseline # Null /\ Len(FullPostBaselineF0) > 0
    THEN DeviationPercent(RMean(FullPostBaselineF0), f0Baseline[1].meanF0)
    ELSE R(0)

\* lines 698-700
F0Assessment(deviationPercent) ==
    IF RLt(R(15), deviationPercent) THEN "High Stress"
    ELSE IF RLt(R(5), deviationPercent) THEN "Elevated"
    ELSE "Normal"

\* lines 717-719
TremorAssessment(tremorScore) ==
    IF tremorScore > 60 THEN "High"
    ELSE IF tremorScore > 30 THEN "Moderate"
    ELSE "Normal"

\* line 737: this.spectralHistory.slice(BASELINE_SPEECH_FRAMES)
FullPostBaselineSpectral == SliceFrom(spectralHistory, BASELINE_SPEECH_FRAMES)

\* line 736
FullHasSpectralShift ==
    spectralBaseline # Null /\ Len(spectralHistory) > BASELINE_SPEECH_FRAMES

\* lines 738, 740
FullCentroidShift ==
    IF FullHasSpectralShift
    THEN RRound(RSub(RMean(Map(FullPostBaselineSpectral, CentroidOf)),
                     spectralBaseline[1].centroid))
    ELSE 0

\* lines 739, 741
FullHammarbergShift ==
    IF FullHasSpectralShift
    THEN Q(RRound(RMul(RSub(RMean(Map(FullPostBaselineSpectral, HammarbergOf)),
                            spectralBaseline[1].hammarberg), R(10))), 10)
    ELSE R(0)

\* line 753
FullSpectralScore ==
    IF spectralBaseline # Null THEN RMin(R(100), Q(IAbs(FullCentroidShift), 10)) ELSE R(0)

\* lines 765-769
\* a variant that grants the baseline points unconditionally
ConfidenceWithBaselinePoints ==
    IMin(100, RRound(
        RAdd(RMul(Q(speechFrameCount, ConfidenceSpeechFrames), R(50)),
             R(40 + (IF Len(tremorHistory) > ConfidenceTremorCount THEN 10 ELSE 0)))))

ConfidenceLevel ==
    IMin(100, RRound(
        RAdd(RMul(Q(speechFrameCount, ConfidenceSpeechFrames), R(50)),
             R((IF baselineEstablished THEN 40 ELSE 0)
               + (IF Len(tremorHistory) > ConfidenceTremorCount THEN 10 ELSE 0)))))

\* _generateIndicators
GenerateIndicators(voiceStress, f0Dev, tremor, jitter) ==
    LET stress == IF voiceStress >= 70 THEN <<"HIGH VOICE STRESS">>
                  ELSE IF voiceStress >= 40 THEN <<"ELEVATED VOICE STRESS">> ELSE <<>>
        pitch == IF RLt(R(15), f0Dev) THEN <<"SIGNIFICANT PITCH SHIFT">>
                 ELSE IF RLt(R(8), f0Dev) THEN <<"PITCH DEVIATION">> ELSE <<>>
        trem == IF tremor >= 60 THEN <<"VOCAL TREMOR DETECTED">>
                ELSE IF tremor >= 30 THEN <<"MILD TREMOR">> ELSE <<>>
        jit == IF RLt(jitter, Q(1, 2)) THEN <<"VOCAL TENSION">>
               ELSE IF RLt(R(2), jitter) THEN <<"VOICE INSTABILITY">> ELSE <<>>
        base == IF ~baselineEstablished THEN <<"NO BASELINE">> ELSE <<>>
        all == stress \o pitch \o trem \o jit \o base
    IN  IF all = <<>> THEN <<"VOICE NORMAL">> ELSE all

\* line 674
\* a variant with the threshold one frame lower
InsufficientSpeechBelow == speechFrameCount < FullMinSpeechFrames - 1

InsufficientSpeech == speechFrameCount < FullMinSpeechFrames

\* fullAnalysis.  The four sub-scores the code keeps in locals are carried in
\* the record (f0Score, jitterScore, shimmerScore, spectralScore).
FullAnalysis ==
    IF InsufficientSpeech THEN DefaultFullResult(SpeechRatio)
    ELSE LET f0DeviationPercent == FullF0DeviationPercent
             tremorScore == TremorScoreOf(tremorHistory)
             jitter == ComputeJitter(pitchPeriods)
             shimmer == ComputeShimmer(Map(cycleAmplitudes, R))
             f0Score == F0Score(f0DeviationPercent)
             jitterScore == JitterScore(jitter)
             shimmerScoreVal == ShimmerScore(shimmer)
             voiceStressScore == Composite(f0Score, tremorScore, jitterScore,
                                           FullSpectralScore, shimmerScoreVal)
         IN  [voiceStressScore |-> voiceStressScore,
              confidenceLevel |-> ConfidenceLevel,
              baselineEstablished |-> baselineEstablished,
              fundamentalFrequency |->
                  [baselineMean |-> IF f0Baseline # Null
                                    THEN Some(RRound(f0Baseline[1].meanF0)) ELSE Null,
                   deviationPercent |-> Q(RRound(RMul(f0DeviationPercent, R(10))), 10),
                   assessment |-> F0Assessment(f0DeviationPercent)],
              microTremor |-> [tremorScore |-> tremorScore,
                               assessment |-> TremorAssessment(tremorScore)],
              voiceQuality |->
                  [jitter |-> Q(RRound(RMul(jitter, R(100))), 100),
                   shimmer |-> Q(RRound(RMul(shimmer, R(100))), 100),
                   shimmerDB |-> Q(RRound(RMul(ComputeShimmerDB(cycleAmplitudes), R(100))), 100),
                   jitterAssessment |-> IF RLt(Q(3, 2), jitter) THEN "Elevated pitch perturbation"
                                        ELSE IF RLt(jitter, Q(1, 2)) THEN "Low jitter"
                                        ELSE "Normal range",
                   shimmerAssessment |-> IF RLt(R(5), shimmer) THEN "Elevated amplitude variation"
                                         ELSE "Normal range"],
              spectralAnalysis |->
                  [baselineCentroid |-> IF spectralBaseline # Null
                                        THEN Some(RRound(spectralBaseline[1].centroid)) ELSE Null,
                   centroidShift |-> FullCentroidShift,
                   hammarbergShift |-> FullHammarbergShift,
                   assessment |-> IF ~FullHasSpectralShift THEN "Insufficient data"
                                  ELSE IF IAbs(FullCentroidShift) > 100
                                       THEN "Significant spectral shift detected"
                                       ELSE "Spectral distribution within normal variation"],
              speechMetrics |-> [speechRatio |-> SpeechRatio,
                                 totalDuration |-> Q(RRound(Q(totalFrameCount * 10, FramesPerSecond)), 10),
                                 silencePauses |-> silencePauses],
              vsaTimeline |-> vsaTimeline,
              indicators |-> GenerateIndicators(voiceStressScore, f0DeviationPercent,
                                                tremorScore, jitter),
              f0Score |-> f0Score, jitterScore |-> jitterScore,
              shimmerScore |-> shimmerScoreVal, spectralScore |-> FullSpectralScore]

\* ------------------------------------------------------------------ operations
\* constructor
Init ==
    /\ isActive = FALSE
    /\ analyserNode = FALSE
    /\ audioNodes = {}
    /\ initOutcome = "none"
    /\ sampleRate = ringBufferSize \div 2
    /\ ringBuffer = Null
    /\ ringBufferWritePos = 0
    /\ ringBufferFilled = FALSE
    /\ isSpeechActive = FALSE
    /\ speechFrameCount = 0
    /\ silenceFrameCount = 0
    /\ totalFrameCount = 0
    /\ silencePauses = 0
    /\ inSilencePause = FALSE
    /\ pauseDurations = <<>>
    /\ currentPauseStart = 0
    /\ f0History = <<>>
    /\ f0Baseline = Null
    /\ baselineF0Values = <<>>
    /\ baselineEstablished = FALSE
    /\ pitchPeriods = <<>>
    /\ cycleAmplitudes = <<>>
    /\ spectralHistory = <<>>
    /\ spectralBaseline = Null
    /\ tremorHistory = <<>>
    /\ vsaTimeline = <<>>
    /\ pushed = <<>>
    /\ zeroFramesOnly = TRUE
    /\ silentRun = 0
    /\ voicedSinceClear = <<>>
    /\ report = Null
    /\ reportShares = FALSE
    /\ quickResult = Null
    /\ reportFresh = FALSE
    /\ quickFresh = FALSE
    /\ justCleared = FALSE
    /\ clearedBaseline = FALSE

\* the references an init call assigns, in the order of assignment
NodeOrder == <<"audioContext", "analyserNode", "sourceNode", "muteGain", "scriptProcessor">>

\* The steps of the try block that can throw, each with the number of
\* references assigned before it: the AudioContext constructor,
\* createAnalyser, createMediaStreamSource / createMediaElementSource,
\* createGain, createScriptProcessor, a connect call, an allocation of
\* _allocateBuffers; "none" when no step throws.
FailurePoints ==
    {"AudioContext", "createAnalyser", "createSource", "createGain",
     "createScriptProcessor", "connect", "allocate", "none"}

AssignedBefore(failAt) ==
    LET n == CASE failAt = "AudioContext" -> 0
               [] failAt = "createAnalyser" -> 1
               [] failAt = "createSource" -> 2
               [] failAt = "createGain" -> 3
               [] failAt = "createScriptProcessor" -> 4
               [] OTHER -> 5
    IN  {NodeOrder[i] : i \in 1..n}

\* destroy, lines 189-193: the references left non-null
\* a variant that forgets the script processor
DestroyNodesButProcessor(nodes) == nodes \cap {"scriptProcessor"}

DestroyNodes(nodes) == {}

\* destroy: disconnects and drops the audio nodes; the session is kept
\* a variant that also resets the frame counters
DestroyResetsCounters ==
    /\ analyserNode' = FALSE
    /\ audioNodes' = {}
    /\ isActive' = FALSE
    /\ justCleared' = FALSE
    /\ clearedBaseline' = FALSE
    /\ totalFrameCount' = 0
    /\ speechFrameCount' = 0
    /\ silenceFrameCount' = 0
    /\ UNCHANGED <<initOutcome, sampleRate, ringVars, f0Vars, histVars, callerVars, isSpeechActive,
                   silencePauses, inSilencePause, pauseDurations, currentPauseStart>>

Destroy ==
    /\ analyserNode' = ("analyserNode" \in DestroyNodes(audioNodes \cup {"analyserNode"}))
    /\ audioNodes' = DestroyNodes(audioNodes) \ {"analyserNode"}
    /\ isActive' = FALSE
    /\ justCleared' = FALSE
    /\ clearedBaseline' = FALSE
    /\ UNCHANGED <<initOutcome, sampleRate, ringVars, sessionVars, callerVars>>

\* The body shared by initAudioContext and initFromMediaElement: destroy(),
\* then the try block, which runs without yielding.  failAt names the step
\* that throws; the catch block then calls destroy() and rethrows, and the
\* call ends "rejected".
\* a variant whose _allocateBuffers leaves the cursor and the filled flag alone
InitEngineKeepsCursor(rate, failAt) ==
    LET nodes == IF failAt = "none" THEN AssignedBefore(failAt)
                 ELSE DestroyNodes(AssignedBefore(failAt))
    IN  /\ sampleRate' = IF failAt = "AudioContext" THEN sampleRate ELSE rate
        /\ analyserNode' = ("analyserNode" \in nodes)
        /\ audioNodes' = nodes \ {"analyserNode"}
        /\ ringBuffer' = IF failAt = "none" THEN ZeroBuffer ELSE ringBuffer
        /\ isActive' = (failAt = "none")
        /\ initOutcome' = IF failAt = "none" THEN "resolved" ELSE "rejected"
        /\ justCleared' = FALSE
        /\ clearedBaseline' = FALSE
        /\ UNCHANGED <<ringBufferWritePos, ringBufferFilled, pushed, sessionVars, callerVars>>

InitEngine(rate, failAt) ==
    LET nodes == IF failAt = "none" THEN AssignedBefore(failAt)
                 ELSE DestroyNodes(AssignedBefore(failAt))
    IN  /\ sampleRate' = IF failAt = "AudioContext" THEN sampleRate ELSE rate
        /\ analyserNode' = ("analyserNode" \in nodes)
        /\ audioNodes' = nodes \ {"analyserNode"}
        /\ IF failAt = "none"
           THEN /\ ringBuffer' = ZeroBuffer
                /\ ringBufferWritePos' = 0
                /\ ringBufferFilled' = FALSE
                /\ pushed' = <<>>
                /\ isActive' = TRUE
                /\ initOutcome' = "resolved"
           ELSE /\ UNCHANGED ringVars
                /\ isActive' = FALSE
                /\ initOutcome' = "rejected"
        /\ justCleared' = FALSE
        /\ clearedBaseline' = FALSE
        /\ UNCHANGED <<sessionVars, callerVars>>

InitAudioContext(rates) ==
    \E rate \in rates, failAt \in FailurePoints : InitEngine(rate, failAt)

InitFromMediaElement(rates) ==
    \E rate \in rates, failAt \in FailurePoints : InitEngine(rate, failAt)

\* the onaudioprocess callback: _fillRingBuffer on the next block of the stream
FillRingBuffer(lengths) ==
    /\ "scriptProcessor" \in audioNodes
    /\ ringBuffer # Null
    /\ \E len \in lengths :
          /\ Len(pushed) + len <= MaxSamples
          /\ LET samples == [i \in 1..len |-> StreamSample(Len(pushed) + i)]
                 after == FillLoop(ringBuffer, ringBufferWritePos, ringBufferFilled, samples)
             IN  /\ ringBuffer' = after[1]
                 /\ ringBufferWritePos' = after[2]
                 /\ ringBufferFilled' = after[3]
                 /\ pushed' = pushed \o samples
    /\ justCleared' = FALSE
    /\ clearedBaseline' = FALSE
    /\ UNCHANGED <<isActive, analyserNode, audioNodes, initOutcome, sampleRate, sessionVars,
                   callerVars>>

\* clearAll, lines 198-203
\* a variant that keeps the values collected for the baseline
ClearF0TrackingKeepsValues ==
    /\ f0History' = <<>>
    /\ f0Baseline' = Null
    /\ baselineF0Values' = baselineF0Values
    /\ baselineEstablished' = FALSE
    /\ pitchPeriods' = <<>>
    /\ cycleAmplitudes' = <<>>

ClearF0Tracking ==
    /\ f0History' = <<>>
    /\ f0Baseline' = Null
    /\ baselineF0Values' = <<>>
    /\ baselineEstablished' = FALSE
    /\ pitchPeriods' = <<>>
    /\ cycleAmplitudes' = <<>>

\* clearAll
\* a variant that keeps the spectral baseline
ClearAllKeepsSpectralBaseline ==
    /\ ClearF0Tracking
    /\ spectralHistory' = <<>>
    /\ tremorHistory' = <<>>
    /\ vsaTimeline' = <<>>
    /\ speechFrameCount' = 0
    /\ silenceFrameCount' = 0
    /\ totalFrameCount' = 0
    /\ silencePauses' = 0
    /\ inSilencePause' = FALSE
    /\ pauseDurations' = <<>>
    /\ currentPauseStart' = 0
    /\ isSpeechActive' = FALSE
    /\ ringBuffer' = IF ringBuffer # Null THEN ZeroBuffer ELSE ringBuffer
    /\ ringBufferWritePos' = 0
    /\ ringBufferFilled' = FALSE
    /\ pushed' = <<>>
    /\ zeroFramesOnly' = TRUE
    /\ silentRun' = 0
    /\ voicedSinceClear' = <<>>
    /\ clearedBaseline' = baselineEstablished
    /\ reportShares' = FALSE
    /\ reportFresh' = FALSE
    /\ quickFresh' = FALSE
    /\ UNCHANGED <<report, quickResult>>
    /\ justCleared' = (totalFrameCount > 0 /\ Len(pushed) > 0)
    /\ UNCHANGED <<isActive, analyserNode, audioNodes, initOutcome, sampleRate, spectralBaseline>>

ClearAll ==
    /\ ClearF0Tracking
    /\ spectralHistory' = <<>>
    /\ spectralBaseline' = Null
    /\ tremorHistory' = <<>>
    /\ vsaTimeline' = <<>>
    /\ speechFrameCount' = 0
    /\ silenceFrameCount' = 0
    /\ totalFrameCount' = 0
    /\ silencePauses' = 0
    /\ inSilencePause' = FALSE
    /\ pauseDurations' = <<>>
    /\ currentPauseStart' = 0
    /\ isSpeechActive' = FALSE
    /\ ringBuffer' = IF ringBuffer # Null THEN ZeroBuffer ELSE ringBuffer
    /\ ringBufferWritePos' = 0
    /\ ringBufferFilled' = FALSE
    /\ pushed' = <<>>
    /\ zeroFramesOnly' = TRUE
    /\ silentRun' = 0
    /\ voicedSinceClear' = <<>>
    /\ clearedBaseline' = baselineEstablished
    /\ reportShares' = FALSE
    /\ reportFresh' = FALSE
    /\ quickFresh' = FALSE
    /\ UNCHANGED <<report, quickResult>>
    /\ justCleared' = (totalFrameCount > 0 /\ Len(pushed) > 0)
    /\ UNCHANGED <<isActive, analyserNode, audioNodes, initOutcome, sampleRate>>

\* processAudioFrame, line 241: the duration recorded when a pause is closed
\* a variant that counts the closing speech frame too
PauseDurationInclusive(total, start) == total - start + 1

PauseDuration(total, start) == total - start

\* processAudioFrame, lines 235-279: a frame VAD classifies as speech
SpeechFrame(tick, total) ==
    LET f0 == TrackFundamentalFrequency(tick)
        voiced == RLt(R(0), f0)
        amplitude == ComputeRMS(tick.td)
        collecting == voiced /\ ~baselineEstablished
        baseVals == IF collecting THEN Append(baselineF0Values, f0) ELSE baselineF0Values
        establish == collecting /\ BaselineReady(baseVals)
        spectral == PushCapped(spectralHistory, AnalyzeSpectralFeatures(tick), SpectralCap)
    IN  /\ speechFrameCount' = speechFrameCount + 1
        /\ inSilencePause' = FALSE
        /\ pauseDurations' = IF inSilencePause
                             THEN Append(pauseDurations, PauseDuration(total, currentPauseStart))
                             ELSE pauseDurations
        /\ f0History' = IF voiced
                        THEN Append(f0History, [time |-> total, f0 |-> f0, amplitude |-> amplitude])
                        ELSE f0History
        /\ baselineF0Values' = baseVals
        /\ f0Baseline' = IF establish THEN EstablishBaseline(baseVals) ELSE f0Baseline
        /\ baselineEstablished' = (baselineEstablished \/ establish)
        /\ pitchPeriods' = IF voiced
                           THEN PushCapped(pitchPeriods, RDiv(R(sampleRate), f0), VoiceQueueCap)
                           ELSE pitchPeriods
        /\ cycleAmplitudes' = IF voiced
                              THEN PushCapped(cycleAmplitudes, amplitude, VoiceQueueCap)
                              ELSE cycleAmplitudes
        /\ spectralHistory' = spectral
        /\ spectralBaseline' = IF SpectralBaselineDue(spectralBaseline, spectral)
                               THEN SpectralBaselineOf(spectral)
                               ELSE spectralBaseline
        /\ UNCHANGED <<silenceFrameCount, silencePauses, currentPauseStart>>

\* processAudioFrame, line 283: a silent frame opens a pause
\* a variant that opens one on every silent frame after speech
OpensPauseAgain == speechFrameCount > 0

OpensPause == ~inSilencePause /\ speechFrameCount > 0

\* processAudioFrame, lines 280-288: a frame VAD classifies as silence
\* a variant that opens a pause without any speech before it
SilenceFrameAlwaysOpens(total) ==
    LET opens == ~inSilencePause
    IN  /\ silenceFrameCount' = silenceFrameCount + 1
        /\ inSilencePause' = (inSilencePause \/ opens)
        /\ currentPauseStart' = IF opens THEN total ELSE currentPauseStart
        /\ silencePauses' = IF opens THEN silencePauses + 1 ELSE silencePauses
        /\ UNCHANGED <<speechFrameCount, pauseDurations, f0Vars, spectralHistory, spectralBaseline>>

\* a variant that also records a spectral snapshot of the silent frame
SilenceFrameRecordsSpectrum(total) ==
    LET opens == ~inSilencePause /\ speechFrameCount > 0
    IN  /\ silenceFrameCount' = silenceFrameCount + 1
        /\ inSilencePause' = (inSilencePause \/ opens)
        /\ currentPauseStart' = IF opens THEN total ELSE currentPauseStart
        /\ silencePauses' = IF opens THEN silencePauses + 1 ELSE silencePauses
        /\ spectralHistory' =
              PushCapped(spectralHistory, [centroid |-> R(0), hammarberg |-> R(0)], SpectralCap)
        /\ UNCHANGED <<speechFrameCount, pauseDurations, f0Vars, spectralBaseline>>

SilenceFrame(total) ==
    LET opens == OpensPause
    IN  /\ silenceFrameCount' = silenceFrameCount + 1
        /\ inSilencePause' = (inSilencePause \/ opens)
        /\ currentPauseStart' = IF opens THEN total ELSE currentPauseStart
        /\ silencePauses' = IF opens THEN silencePauses + 1 ELSE silencePauses
        /\ UNCHANGED <<speechFrameCount, pauseDurations, f0Vars, spectralHistory, spectralBaseline>>

\* processAudioFrame, lines 290-297
\* a variant that starts the history over when it is full
TremorStepRestartsWhenFull(outcome, total) ==
    LET tremor == IF TremorGate THEN AnalyzeMicroTremor(outcome) ELSE Null
        entry == [time |-> total, energyRatio |-> tremor[1].energyRatio,
                  peakFreq |-> tremor[1].peakFreq]
    IN  tremorHistory' =
            IF tremor = Null THEN tremorHistory
            ELSE IF Len(tremorHistory) >= TremorCap THEN <<entry>>
            ELSE Append(tremorHistory, entry)

TremorStep(outcome, total) ==
    LET tremor == IF TremorGate THEN AnalyzeMicroTremor(outcome) ELSE Null
    IN  tremorHistory' =
            IF tremor # Null
            THEN PushCapped(tremorHistory,
                            [time |-> total, energyRatio |-> tremor[1].energyRatio,
                             peakFreq |-> tremor[1].peakFreq], TremorCap)
            ELSE tremorHistory

\* processAudioFrame, line 300
\* a variant that is due one frame after each window
TimelineDueLate(total) == total % timelineWindowFrames = 1

TimelineDue(total) == total % timelineWindowFrames = 0

\* processAudioFrame, lines 299-308; _quickAssess reads the state this frame wrote
TimelineStep(total) ==
    LET assess == QuickAssessOf(
            [totalFrameCount |-> totalFrameCount', isSpeechActive |-> isSpeechActive',
             f0History |-> f0History', f0Baseline |-> f0Baseline',
             baselineEstablished |-> baselineEstablished', pitchPeriods |-> pitchPeriods',
             cycleAmplitudes |-> cycleAmplitudes', spectralHistory |-> spectralHistory',
             spectralBaseline |-> spectralBaseline', tremorHistory |-> tremorHistory'])
    IN  vsaTimeline' =
            IF TimelineDue(total)
            THEN Append(vsaTimeline,
                        [timeSeconds |-> RRound(Q(total, timelineWindowFrames)),
                         voiceStress |-> assess.voiceStress,
                         f0 |-> assess.currentF0,
                         isSpeaking |-> assess.isSpeaking])
            ELSE vsaTimeline

\* processAudioFrame on one analysis tick; at most maxFrames frames are explored
ProcessFrame(tick, maxFrames) ==
    IF ~isActive \/ ~analyserNode
    THEN /\ justCleared' = FALSE
         /\ clearedBaseline' = FALSE
         /\ UNCHANGED <<isActive, analyserNode, audioNodes, initOutcome, sampleRate, ringVars,
                        sessionVars, callerVars>>
    ELSE LET total == totalFrameCount + 1
             speech == DetectVoiceActivity(tick.td)
         IN  /\ totalFrameCount < maxFrames
             /\ totalFrameCount' = total
             /\ isSpeechActive' = speech
             /\ IF speech THEN SpeechFrame(tick, total) ELSE SilenceFrame(total)
             /\ TremorStep(tick.tremor, total)
             /\ zeroFramesOnly' = (zeroFramesOnly /\ tick.td = ZeroFrame)
             /\ silentRun' = IF speech THEN 0 ELSE silentRun + 1
             /\ voicedSinceClear' =
                    IF speech /\ RLt(R(0), TrackFundamentalFrequency(tick))
                    THEN Append(voicedSinceClear, TrackFundamentalFrequency(tick))
                    ELSE voicedSinceClear
             /\ justCleared' = FALSE
             /\ clearedBaseline' = FALSE
             /\ UNCHANGED <<isActive, analyserNode, audioNodes, initOutcome, sampleRate, ringVars>>
             /\ TimelineStep(total)
             /\ report' = IF reportShares
                          THEN Some([report[1] EXCEPT !.vsaTimeline = vsaTimeline'])
                          ELSE report
             /\ reportFresh' = FALSE
             /\ quickFresh' = FALSE
             /\ UNCHANGED <<reportShares, quickResult>>

ProcessAudioFrame(ticks, maxFrames) ==
    \E tick \in ticks : ProcessFrame(tick, maxFrames)

\* a caller takes the result of _quickAssess
\* a variant whose window of recent F0 samples is cut out of f0History
\* (splice for slice, line 323)
QuickAssessCallSplices ==
    /\ quickResult' = Some(QuickAssess)
    /\ quickFresh' = TRUE
    /\ justCleared' = FALSE
    /\ clearedBaseline' = FALSE
    /\ f0History' = IF totalFrameCount < QuickMinFrames THEN f0History
                    ELSE SubSeq(f0History, 1, Len(f0History) - IMin(Len(f0History), QuickRecentFrames))
    /\ UNCHANGED <<isActive, analyserNode, audioNodes, initOutcome, sampleRate, ringVars,
                   vadVars, f0Baseline, baselineF0Values, baselineEstablished, pitchPeriods,
                   cycleAmplitudes, histVars, report, reportShares, reportFresh>>

QuickAssessCall ==
    /\ quickResult' = Some(QuickAssess)
    /\ quickFresh' = TRUE
    /\ justCleared' = FALSE
    /\ clearedBaseline' = FALSE
    /\ UNCHANGED <<isActive, analyserNode, audioNodes, initOutcome, sampleRate, ringVars,
                   sessionVars, report, reportShares, reportFresh>>

\* a caller takes the report of fullAnalysis: the full report carries the
\* engine's own vsaTimeline array (line 823), the default report a new one
FullAnalysisCall ==
    /\ report' = Some(FullAnalysis)
    /\ reportShares' = ~InsufficientSpeech
    /\ reportFresh' = TRUE
    /\ justCleared' = FALSE
    /\ clearedBaseline' = FALSE
    /\ UNCHANGED <<isActive, analyserNode, audioNodes, initOutcome, sampleRate, ringVars,
                   sessionVars, quickResult, quickFresh>>

\* ------------------------------------------------------------------ specifications
\* The session: every kind of analysis tick on a running engine, at the
\* constructor's sample rate (half the ring buffer per second), the audio
\* arriving in blocks of one length.
SessionRates == {ringBufferSize \div 2}

SessionBlocks == {ringBufferSize - 1}

Start == \E rate \in SessionRates : InitEngine(rate, "none")

Next ==
    \/ Start
    \/ FillRingBuffer(SessionBlocks)
    \/ ClearAll
    \/ ProcessAudioFrame(Ticks, MaxFrames)

Spec == Init /\ [][Next]_vars

\* A session of voiced speech only, long enough for the capped histories to
\* evict and for as many frames after the baseline as before it.
VoicedTicks ==
    { Tick(HalfFrame(100), Some(R(200)), 1000, 10, TremorMild),
      Tick(HalfFrame(200), Some(R(240)), 1500, 20, TremorHigh) }

NextVoiced ==
    \/ Start
    \/ FillRingBuffer(SessionBlocks)
    \/ ClearAll
    \/ ProcessAudioFrame(VoicedTicks, MaxVoicedFrames)

SpecVoiced == Init /\ [][NextVoiced]_vars

\* A session that mixes silence, voiced speech and speech without a pitch
\* peak, as long as the voiced session; no audio reaches the ring buffer, so
\* the tremor analysis stays idle.
MixedTicks ==
    { Tick(ZeroFrame, Null, 0, 0, TremorNone),
      Tick(HalfFrame(100), Some(R(200)), 1000, 10, TremorMild),
      Tick(HalfFrame(100), Null, 3000, 5, TremorMild) }

NextMixed ==
    \/ Start
    \/ ClearAll
    \/ ProcessAudioFrame(MixedTicks, MaxVoicedFrames)

SpecMixed == Init /\ [][NextMixed]_vars

\* The callers of the assessments: a session of silent and voiced frames,
\* the two assessments called at any point.
ReportTicks ==
    { Tick(ZeroFrame, Null, 0, 0, TremorNone),
      Tick(HalfFrame(100), Some(R(200)), 1000, 10, TremorMild) }

NextReport ==
    \/ Start
    \/ ClearAll
    \/ ProcessAudioFrame(ReportTicks, MaxReportFrames)
    \/ QuickAssessCall
    \/ FullAnalysisCall

SpecReport == Init /\ [][NextReport]_vars

\* The pitch range: speech frames whose autocorrelation peak, after the
\* parabolic refinement, lies at, just inside, just outside and far outside
\* the limits of the voice range (a refined lag below zero gives a negative
\* frequency), and a peak reported on a frame without energy.
PitchTicks ==
    { Tick(HalfFrame(100), Null, 3000, 5, TremorNone),
      Tick(HalfFrame(100), Some(Q(749, 10)), 3000, 5, TremorNone),
      Tick(HalfFrame(100), Some(R(75)), 3000, 5, TremorNone),
      Tick(HalfFrame(200), Some(R(400)), 3000, 5, TremorNone),
      Tick(HalfFrame(100), Some(Q(4001, 10)), 3000, 5, TremorNone),
      Tick(HalfFrame(100), Some(R(-100)), 3000, 5, TremorNone),
      Tick(ZeroFrame, Some(R(200)), 0, 0, TremorNone) }

NextPitch ==
    \/ Start
    \/ ClearAll
    \/ ProcessAudioFrame(PitchTicks, MaxPitchFrames)

SpecPitch == Init /\ [][NextPitch]_vars

\* The ring buffer and the tremor gate: every sample rate and every block
\* length, on a silent tick and on a speech tick.
RingTicks ==
    { Tick(ZeroFrame, Null, 0, 0, TremorNone),
      Tick(HalfFrame(100), Null, 3000, 5, TremorMild) }

NextRing ==
    \/ InitAudioContext(SampleRates)
    \/ InitFromMediaElement(SampleRates)
    \/ Destroy
    \/ FillRingBuffer(1..MaxBlock)
    \/ ClearAll
    \/ ProcessAudioFrame(RingTicks, MaxRingFrames)

SpecRing == Init /\ [][NextRing]_vars

\* ------------------------------------------------------------------ properties
\* a running engine whose next frame reaches the extraction loop of _analyzeMicroTremor
TremorExtracts == isActive /\ analyserNode /\ TremorGate /\ AnalysisLength >= sampleRate

\* C1: whenever _analyzeMicroTremor extracts a window, the window is the last
\* n samples pushed by _fillRingBuffer, in the order they were pushed, with
\* n = min(samples available, 2 * sampleRate) <= capacity.
C1_WindowIsLastSamples ==
    TremorExtracts =>
        /\ AnalysisLength = IMin(IMin(Len(pushed), ringBufferSize), 2 * sampleRate)
        /\ TremorWindow = SliceLast(pushed, AnalysisLength)

\* a frame was processed by this step
FrameProcessed == totalFrameCount' = totalFrameCount + 1

\* this step appended exactly one tremor snapshot, stamped with the frame
TremorAppended ==
    /\ Len(tremorHistory') > 0
    /\ tremorHistory'[Len(tremorHistory')].time = totalFrameCount'
    /\ tremorHistory' = PushCapped(tremorHistory, tremorHistory'[Len(tremorHistory')], TremorCap)

\* C5: on every processed frame, speech or silence, exactly one tremor
\* snapshot is appended if the ring buffer holds at least one second of audio
\* (sampleRate samples written, or the buffer filled) and none otherwise.
\* Stated for the sample rates whose second fits the buffer.
C5_TremorEveryFrameFromOneSecond ==
    [][(FrameProcessed /\ sampleRate <= ringBufferSize) =>
          IF ringBufferFilled \/ Len(pushed) >= sampleRate
          THEN TremorAppended
          ELSE tremorHistory' = tremorHistory]_vars

\* the first BASELINE_SPEECH_FRAMES F0 values of the session
FirstF0Values == SubSeq(F0Values, 1, IMin(Len(F0Values), BASELINE_SPEECH_FRAMES))

\* mean and population variance (E[x^2] - E[x]^2) of a non-empty sequence of rationals
MeanAndVariance(vals) ==
    LET n == R(Len(vals))
        Sq(v) == RMul(v, v)
        mean == RDiv(RSum(vals), n)
    IN  [meanF0 |-> mean,
         varF0 |-> RSub(RDiv(RSum(Map(vals, Sq)), n), RMul(mean, mean))]

\* the baseline exists exactly from the BASELINE_SPEECH_FRAMES-th voiced sample
\* on, and is the statistics of the first BASELINE_SPEECH_FRAMES values
BaselineIsOfFirstValues ==
    /\ baselineEstablished <=> Len(f0History) >= BASELINE_SPEECH_FRAMES
    /\ baselineEstablished =>
          /\ baselineF0Values = FirstF0Values
          /\ f0Baseline = Some(MeanAndVariance(FirstF0Values))
    /\ ~baselineEstablished =>
          /\ baselineF0Values = F0Values
          /\ f0Baseline = Null

\* C2: within a session the F0 baseline is established exactly at the frame
\* that appends the BASELINE_SPEECH_FRAMES-th voiced F0 sample, its mean and
\* variance (sdF0 squared) are those of exactly the first
\* BASELINE_SPEECH_FRAMES values, and no later frame changes
\* baselineEstablished, f0Baseline or baselineF0Values.
C2_BaselineLatch ==
    /\ []BaselineIsOfFirstValues
    /\ [][(FrameProcessed /\ baselineEstablished) =>
             UNCHANGED <<baselineEstablished, f0Baseline, baselineF0Values>>]_vars

\* voiced frames kept arriving after the baseline was established
C2_Witness ==
    /\ baselineEstablished
    /\ Len(f0History) > BASELINE_SPEECH_FRAMES
    /\ F0Values[1] # F0Values[BASELINE_SPEECH_FRAMES + 1]

InScore(x) == 0 <= x /\ x <= 100

RInScore(x) == RLe(R(0), x) /\ RLe(x, R(100))

\* C3: every score of _quickAssess (voiceStress, tremorScore, spectralShift)
\* and of fullAnalysis (voiceStressScore, microTremor.tremorScore,
\* confidenceLevel) lies in [0, 100].
C3_ScoresWithinBounds ==
    LET quick == QuickAssess
        full == FullAnalysis
    IN  /\ InScore(quick.voiceStress)
        /\ InScore(quick.tremorScore)
        /\ RInScore(quick.spectralShift)
        /\ InScore(full.voiceStressScore)
        /\ InScore(full.microTremor.tremorScore)
        /\ InScore(full.confidenceLevel)

\* scores at the cap: the tremor score of both assessments and the
\* confidence level, on a report with a positive composite score
C3_Witness ==
    /\ QuickAssess.tremorScore = 100
    /\ FullAnalysis.microTremor.tremorScore = 100
    /\ FullAnalysis.confidenceLevel = 100
    /\ FullAnalysis.voiceStressScore > 0

\* speech was detected, no F0 was ever tracked, no tremor snapshot exists, no baseline exists
NothingTracked ==
    /\ pitchPeriods = <<>>
    /\ cycleAmplitudes = <<>>
    /\ tremorHistory = <<>>
    /\ ~baselineEstablished
    /\ f0Baseline = Null
    /\ spectralBaseline = Null

\* C4: with empty pitch-period, amplitude and tremor histories and no
\* baseline, the jitter and shimmer sub-scores and the composite stress
\* score of _quickAssess and of fullAnalysis are 0.
C4_DegenerateScoresAreZero ==
    NothingTracked =>
        /\ QuickAssess.jitterScore = R(0)
        /\ QuickAssess.shimmerScore = R(0)
        /\ QuickAssess.voiceStress = 0
        /\ FullAnalysis.jitterScore = R(0)
        /\ FullAnalysis.shimmerScore = R(0)
        /\ FullAnalysis.voiceStressScore = 0

\* Spectral snapshots are appended one per speech frame, so
\* speechFrameCount - Len(spectralHistory) of them have been evicted, and the
\* retained snapshots recorded after the baseline window are these.
RetainedPostBaselineSpectral ==
    SliceFrom(spectralHistory,
              IMax(0, BASELINE_SPEECH_FRAMES - (speechFrameCount - Len(spectralHistory))))

\* C6: fullAnalysis computes the F0 deviation and the spectral shifts over
\* exactly the samples recorded after the baseline window: every retained
\* post-baseline sample and no baseline sample, also once spectralHistory
\* has evicted entries.
C6_FullUsesPostBaselineSamples ==
    /\ FullPostBaselineF0 = SliceFrom(F0Values, Len(FirstF0Values))
    /\ FullPostBaselineSpectral = RetainedPostBaselineSpectral
    /\ (spectralBaseline # Null /\ RetainedPostBaselineSpectral # <<>>) =>
          FullAnalysis.spectralAnalysis.centroidShift =
              RRound(RSub(RMean(Map(RetainedPostBaselineSpectral, CentroidOf)),
                          spectralBaseline[1].centroid))

\* n copies of x
Repeat(n, x) == [i \in 1..n |-> x]

\* BASELINE_SPEECH_FRAMES voiced frames at 200 Hz, then as many at 240 Hz
ScenarioF0 == Repeat(BASELINE_SPEECH_FRAMES, R(200)) \o Repeat(BASELINE_SPEECH_FRAMES, R(240))

\* the deviation, in percent, of the F0 values after the first
\* BASELINE_SPEECH_FRAMES from the mean of the first BASELINE_SPEECH_FRAMES
SessionDeviation ==
    IF Len(F0Values) > BASELINE_SPEECH_FRAMES
    THEN LET base == RDiv(RSum(FirstF0Values), R(BASELINE_SPEECH_FRAMES))
             post == SubSeq(F0Values, BASELINE_SPEECH_FRAMES + 1, Len(F0Values))
             mean == RDiv(RSum(post), R(Len(post)))
             diff == RSub(mean, base)
         IN  RDiv(RMul(IF RLt(diff, R(0)) THEN RSub(R(0), diff) ELSE diff, R(100)), base)
    ELSE R(0)

\* C7: after BASELINE_SPEECH_FRAMES voiced frames at 200 Hz and as many at
\* 240 Hz the baseline mean is 200, the deviation 20 percent, the
\* F0-deviation sub-score 100 in both assessments and the assessment
\* 'High Stress'; in every report the assessment is 'High Stress' iff the
\* deviation exceeds 15 percent, 'Elevated' iff it is in (5, 15], else 'Normal'.
C7_ScenarioAndAssessment ==
    /\ F0Values = ScenarioF0 =>
          /\ f0Baseline # Null
          /\ f0Baseline[1].meanF0 = R(200)
          /\ FullAnalysis.fundamentalFrequency.baselineMean = Some(200)
          /\ FullAnalysis.fundamentalFrequency.deviationPercent = R(20)
          /\ QuickAssess.f0Deviation = R(20)
          /\ QuickAssess.f0DeviationScore = R(100)
          /\ FullAnalysis.f0Score = R(100)
          /\ FullAnalysis.fundamentalFrequency.assessment = "High Stress"
    /\ speechFrameCount >= FullMinSpeechFrames =>
          FullAnalysis.fundamentalFrequency.assessment =
              IF RLt(R(15), SessionDeviation) THEN "High Stress"
              ELSE IF RLt(R(5), SessionDeviation) THEN "Elevated"
              ELSE "Normal"

\* the scenario has been fed
C7_Witness == F0Values = ScenarioF0 /\ speechFrameCount = 2 * BASELINE_SPEECH_FRAMES

\* C8: while every processed frame is all zeros, VAD reports silence and the
\* pitch tracker no detection, so speechFrameCount is 0, f0History is empty,
\* no pause is opened, no baseline is established and fullAnalysis returns
\* the default report.
C8_AllZeroStream ==
    /\ ~DetectVoiceActivity(ZeroFrame)
    /\ \A tick \in Ticks : tick.td = ZeroFrame => TrackFundamentalFrequency(tick) = R(-1)
    /\ zeroFramesOnly =>
          /\ ~isSpeechActive
          /\ speechFrameCount = 0
          /\ silenceFrameCount = totalFrameCount
          /\ f0History = <<>>
          /\ silencePauses = 0
          /\ ~inSilencePause
          /\ ~baselineEstablished
          /\ f0Baseline = Null
          /\ spectralBaseline = Null
          /\ FullAnalysis = DefaultFullResult(0)

\* several all-zero frames were processed with audio buffered
C8_Witness == zeroFramesOnly /\ totalFrameCount = MaxFrames /\ tremorHistory # <<>>

\* mean centroid and mean Hammarberg of a non-empty sequence of snapshots
SpectralMeans(snapshots) ==
    [centroid |-> RDiv(RSum(Map(snapshots, CentroidOf)), R(Len(snapshots))),
     hammarberg |-> RDiv(RSum(Map(snapshots, HammarbergOf)), R(Len(snapshots)))]

\* C9: the spectral baseline exists exactly from the frame that appends the
\* BASELINE_SPEECH_FRAMES-th spectral snapshot, is the mean centroid and
\* mean Hammarberg of exactly the first BASELINE_SPEECH_FRAMES snapshots,
\* and no later frame changes it, eviction included.
C9_SpectralBaselineLatch ==
    /\ [](spectralBaseline # Null <=> speechFrameCount >= BASELINE_SPEECH_FRAMES)
    /\ [][(FrameProcessed /\ spectralBaseline = Null /\ spectralBaseline' # Null) =>
             /\ speechFrameCount' = BASELINE_SPEECH_FRAMES
             /\ Len(spectralHistory') = BASELINE_SPEECH_FRAMES
             /\ spectralBaseline' = Some(SpectralMeans(spectralHistory'))]_vars
    /\ [][(FrameProcessed /\ spectralBaseline # Null) =>
             spectralBaseline' = spectralBaseline]_vars

\* the baseline is in place and the history has evicted its first snapshot,
\* whose centroid is not the one that took its place in the first
\* BASELINE_SPEECH_FRAMES entries
C9_Witness ==
    /\ spectralBaseline # Null
    /\ speechFrameCount > SpectralCap
    /\ Some(SpectralMeans(SubSeq(spectralHistory, 1, BASELINE_SPEECH_FRAMES))) # spectralBaseline

\* the session state of a freshly constructed engine, the ring buffer zeroed if allocated
FreshSession ==
    /\ f0History = <<>> /\ baselineF0Values = <<>> /\ pitchPeriods = <<>>
    /\ cycleAmplitudes = <<>> /\ spectralHistory = <<>> /\ tremorHistory = <<>>
    /\ vsaTimeline = <<>> /\ pauseDurations = <<>>
    /\ f0Baseline = Null /\ spectralBaseline = Null /\ ~baselineEstablished
    /\ speechFrameCount = 0 /\ silenceFrameCount = 0 /\ totalFrameCount = 0
    /\ silencePauses = 0 /\ currentPauseStart = 0
    /\ ~inSilencePause /\ ~isSpeechActive
    /\ ringBuffer \in {Null, [i \in 1..ringBufferSize |-> 0]}
    /\ ringBufferWritePos = 0 /\ ~ringBufferFilled

\* C10: clearAll leaves every history empty, both baselines null, every
\* counter and flag at its initial value and the ring buffer zeroed with
\* cursor 0 and filled = false; it keeps isActive and sampleRate, and a
\* second clearAll changes nothing.
C10_ClearAllResets ==
    /\ [][ClearAll =>
             /\ FreshSession'
             /\ (ringBuffer' = Null) = (ringBuffer = Null)
             /\ isActive' = isActive
             /\ sampleRate' = sampleRate
             /\ analyserNode' = analyserNode]_vars
    /\ [][(ClearAll /\ FreshSession) =>
             UNCHANGED <<isActive, analyserNode, sampleRate, ringBuffer, ringBufferWritePos,
                         ringBufferFilled, vadVars, f0Vars, spectralHistory,
                         spectralBaseline, tremorHistory, vsaTimeline>>]_vars

\* clearAll has just discarded a session with processed frames and buffered audio
C10_Witness == justCleared /\ FreshSession /\ isActive /\ ringBuffer # Null

\* C11: a pause is opened (silencePauses incremented) exactly on a
\* speech-to-silence transition and closed exactly on the next
\* silence-to-speech transition, where one duration is appended, equal to
\* the number of consecutive silent frames of the pause; silence before the
\* first speech frame opens no pause.
C11_PauseTracking ==
    /\ [](inSilencePause <=> (silentRun > 0 /\ speechFrameCount > 0))
    /\ [](speechFrameCount = 0 => (silencePauses = 0 /\ pauseDurations = <<>>))
    /\ [][FrameProcessed =>
             /\ silencePauses' = silencePauses
                                    + (IF isSpeechActive /\ ~isSpeechActive' THEN 1 ELSE 0)
             /\ pauseDurations' =
                    IF isSpeechActive' /\ silentRun > 0 /\ speechFrameCount > 0
                    THEN Append(pauseDurations, silentRun)
                    ELSE pauseDurations]_vars

\* a pause of two silent frames was opened after speech and closed by speech
C11_Witness ==
    /\ silencePauses = 1
    /\ pauseDurations = <<2>>
    /\ isSpeechActive
    /\ ~inSilencePause

\* the confidence of a report without the baseline term: the speech points
\* rounded half up, plus the tremor points, at most 100
ConfidenceWithoutBaseline ==
    IMin(100, (100 * speechFrameCount + ConfidenceSpeechFrames) \div (2 * ConfidenceSpeechFrames)
              + (IF Len(tremorHistory) > ConfidenceTremorCount THEN 10 ELSE 0))

\* C12: while fewer than BASELINE_SPEECH_FRAMES voiced F0 samples have been
\* collected, f0Baseline is null and baselineEstablished false, both
\* assessments report F0 deviation 0 and no baseline, a full report that is
\* not the default one carries 'NO BASELINE', and its confidence level has
\* no baseline term.
C12_MissingBaselineIsNeutral ==
    Len(f0History) < BASELINE_SPEECH_FRAMES =>
        LET quick == QuickAssess
            full == FullAnalysis
        IN  /\ f0Baseline = Null
            /\ ~baselineEstablished
            /\ quick.f0Deviation = R(0)
            /\ quick.f0DeviationScore = R(0)
            /\ ~quick.hasBaseline
            /\ full.fundamentalFrequency.deviationPercent = R(0)
            /\ full.fundamentalFrequency.baselineMean = Null
            /\ ~full.baselineEstablished
            /\ speechFrameCount >= FullMinSpeechFrames =>
                  /\ \E i \in 1..Len(full.indicators) : full.indicators[i] = "NO BASELINE"
                  /\ full.confidenceLevel = ConfidenceWithoutBaseline

\* a full report and a quick assessment on a session with voiced samples,
\* tremor snapshots and speech, but too few samples for a baseline
C12_Witness ==
    /\ Len(f0History) > 0
    /\ Len(f0History) < BASELINE_SPEECH_FRAMES
    /\ speechFrameCount >= FullMinSpeechFrames
    /\ totalFrameCount >= QuickMinFrames
    /\ Len(tremorHistory) > ConfidenceTremorCount

\* C13: with fewer than FullMinSpeechFrames speech frames fullAnalysis
\* returns the default report (voiceStressScore 0, confidenceLevel 0,
\* baselineEstablished false, the 'INSUFFICIENT SPEECH' indicator and the
\* 'Insufficient ...' assessments), whatever the other histories contain.
C13_InsufficientSpeechDefault ==
    speechFrameCount < FullMinSpeechFrames =>
        LET full == FullAnalysis
        IN  /\ full.voiceStressScore = 0
            /\ full.confidenceLevel = 0
            /\ ~full.baselineEstablished
            /\ full.indicators = <<"INSUFFICIENT SPEECH">>
            /\ full.fundamentalFrequency.assessment = "Insufficient speech data"
            /\ full.fundamentalFrequency.deviationPercent = R(0)
            /\ full.microTremor.assessment = "Insufficient data"
            /\ full.microTremor.tremorScore = 0
            /\ full.spectralAnalysis.assessment = "Insufficient data"
            /\ full.voiceQuality.jitterAssessment = "No data"
            /\ full.vsaTimeline = <<>>

\* too little speech, with an F0 sample, tremor snapshots scoring above 0
\* and timeline entries in the histories
C13_Witness ==
    /\ speechFrameCount > 0
    /\ speechFrameCount < FullMinSpeechFrames
    /\ f0History # <<>>
    /\ spectralHistory # <<>>
    /\ TremorScoreOf(tremorHistory) > 0
    /\ vsaTimeline # <<>>

\* q2 is q, or q with one entry arrived at the back and the oldest entries
\* beyond cap gone
QueueStep(q, q2, cap) ==
    \/ q2 = q
    \/ /\ q2 # <<>>
       /\ LET t == Append(q, q2[Len(q2)])
          IN  q2 = [i \in 1..IMin(Len(t), cap) |-> t[Len(t) - IMin(Len(t), cap) + i]]

\* the last entries, at most cap, of a sequence
LastOf(s, cap) == [i \in 1..IMin(Len(s), cap) |-> s[Len(s) - IMin(Len(s), cap) + i]]

\* C14: pitchPeriods and cycleAmplitudes hold at most VoiceQueueCap entries,
\* tremorHistory at most TremorCap and spectralHistory at most SpectralCap;
\* each queue holds the most recent entries in arrival order (an arrival
\* beyond the cap evicts the oldest entry); f0History is never evicted.
C14_CappedQueues ==
    /\ [](/\ Len(pitchPeriods) <= VoiceQueueCap
          /\ Len(cycleAmplitudes) <= VoiceQueueCap
          /\ Len(tremorHistory) <= TremorCap
          /\ Len(spectralHistory) <= SpectralCap
          /\ Len(spectralHistory) = IMin(speechFrameCount, SpectralCap)
          /\ pitchPeriods =
                LastOf([i \in 1..Len(f0History) |-> RDiv(R(sampleRate), f0History[i].f0)],
                       VoiceQueueCap)
          /\ cycleAmplitudes =
                LastOf([i \in 1..Len(f0History) |-> f0History[i].amplitude], VoiceQueueCap))
    /\ [][FrameProcessed =>
             /\ Len(f0History') >= Len(f0History)
             /\ SubSeq(f0History', 1, Len(f0History)) = f0History
             /\ QueueStep(pitchPeriods, pitchPeriods', VoiceQueueCap)
             /\ QueueStep(cycleAmplitudes, cycleAmplitudes', VoiceQueueCap)
             /\ QueueStep(tremorHistory, tremorHistory', TremorCap)
             /\ QueueStep(spectralHistory, spectralHistory', SpectralCap)
             /\ isSpeechActive' => spectralHistory' # spectralHistory \/ Len(spectralHistory) = SpectralCap]_vars

\* every queue has evicted, the F0 history holds more than a queue does, and
\* the queues hold entries that differ
C14_Witness ==
    /\ Len(f0History) > VoiceQueueCap
    /\ Len(pitchPeriods) = VoiceQueueCap
    /\ Len(cycleAmplitudes) = VoiceQueueCap
    /\ pitchPeriods[1] # pitchPeriods[VoiceQueueCap]
    /\ speechFrameCount > SpectralCap
    /\ Len(spectralHistory) = SpectralCap
    /\ Len(tremorHistory) = TremorCap
    /\ tremorHistory[1].time > 1

\* C15: one timeline entry is appended per timelineWindowFrames processed
\* frames: Len(vsaTimeline) = floor(totalFrameCount / timelineWindowFrames),
\* the k-th entry has timeSeconds = k, and the entries are in strictly
\* increasing time order.
C15_TimelineCadence ==
    /\ [](/\ Len(vsaTimeline) = totalFrameCount \div timelineWindowFrames
          /\ \A k \in 1..Len(vsaTimeline) : vsaTimeline[k].timeSeconds = k
          /\ \A j, k \in 1..Len(vsaTimeline) :
                j < k => vsaTimeline[j].timeSeconds < vsaTimeline[k].timeSeconds)
    /\ [][FrameProcessed =>
             IF totalFrameCount' % timelineWindowFrames = 0
             THEN /\ Len(vsaTimeline') = Len(vsaTimeline) + 1
                  /\ SubSeq(vsaTimeline', 1, Len(vsaTimeline)) = vsaTimeline
                  /\ vsaTimeline'[Len(vsaTimeline')].isSpeaking = isSpeechActive'
             ELSE vsaTimeline' = vsaTimeline]_vars

\* two windows have passed, the second ending on a silent frame, the first not
C15_Witness ==
    /\ totalFrameCount = 2 * timelineWindowFrames
    /\ Len(vsaTimeline) = 2
    /\ vsaTimeline[1].isSpeaking
    /\ ~vsaTimeline[2].isSpeaking

\* min(100, x) for a rational x
Cap100(x) == IF RLt(R(100), x) THEN R(100) ELSE x

\* |x - ref| * factor for rationals x, ref
ScaledDistance(x, ref, factor) ==
    RMul(IF RLt(x, ref) THEN RSub(ref, x) ELSE RSub(x, ref), factor)

\* a non-negative rational rounded to the nearest integer, halves up
RoundHalfUp(x) == (2 * x[1] + x[2]) \div (2 * x[2])

\* min(100, round(0.30 f0 + 0.25 tremor + 0.20 jitter + 0.15 spectral + 0.10 shimmer))
WeightedComposite(f0, tremor, jitter, spectral, shimmer) ==
    LET sum == RAdd(RAdd(RAdd(RAdd(RMul(R(30), f0), R(25 * tremor)), RMul(R(20), jitter)),
                         RMul(R(15), spectral)), RMul(R(10), shimmer))
        rounded == RoundHalfUp(RDiv(sum, R(100)))
    IN  IF rounded > 100 THEN 100 ELSE rounded

\* the composite and the sub-scores of fullAnalysis follow the formulas
FullFollowsFormulas ==
    speechFrameCount >= FullMinSpeechFrames =>
        LET full == FullAnalysis
        IN  /\ full.voiceStressScore =
                  WeightedComposite(full.f0Score, full.microTremor.tremorScore,
                                    full.jitterScore, full.spectralScore, full.shimmerScore)
            /\ full.f0Score = Cap100(RMul(R(5), FullF0DeviationPercent))
            /\ full.jitterScore = Cap100(ScaledDistance(ComputeJitter(pitchPeriods), R(1), R(80)))
            /\ full.shimmerScore =
                  Cap100(ScaledDistance(ComputeShimmer(Map(cycleAmplitudes, R)), R(3), R(15)))
            /\ full.spectralScore =
                  Cap100(Q(IAbs(full.spectralAnalysis.centroidShift), 10))

\* the composite and the F0 sub-score of _quickAssess follow the formulas
QuickCompositeFollowsFormula(quick) ==
    /\ quick.voiceStress =
          WeightedComposite(quick.f0DeviationScore, quick.tremorScore,
                            quick.jitterScore, quick.spectralShift, quick.shimmerScore)
    /\ quick.f0DeviationScore = Cap100(RMul(R(5), QuickF0DeviationPercent(Engine)))

\* the jitter and shimmer of the queues as _quickAssess reports them: 0
\* unless more than QuickMinEntries entries are held
QuickJitter == IF Len(pitchPeriods) > QuickMinEntries THEN ComputeJitter(pitchPeriods) ELSE R(0)

QuickShimmer ==
    IF Len(cycleAmplitudes) > QuickMinEntries
    THEN ComputeShimmer(Map(cycleAmplitudes, R)) ELSE R(0)

\* C16 as stated: in both _quickAssess and fullAnalysis the composite is
\* min(100, round(0.30 F0 + 0.25 tremor + 0.20 jitter + 0.15 spectral +
\* 0.10 shimmer)) with F0 = min(100, 5 * deviation), jitter score =
\* min(100, 80 * |jitter% - 1.0|), spectral = min(100, |centroid shift| / 10)
\* and shimmer score = min(100, 15 * |shimmer% - 3.0|).
C16_FormulasInBoth ==
    /\ FullFollowsFormulas
    /\ totalFrameCount >= QuickMinFrames =>
          LET quick == QuickAssess
          IN  /\ QuickCompositeFollowsFormula(quick)
              /\ quick.jitterScore = Cap100(ScaledDistance(QuickJitter, R(1), R(80)))
              /\ quick.shimmerScore = Cap100(ScaledDistance(QuickShimmer, R(3), R(15)))

\* C16, amended: the composite formula and the F0 and spectral sub-score
\* formulas hold in both assessments; the jitter and shimmer sub-score
\* formulas hold in fullAnalysis always, and in _quickAssess when more than
\* QuickMinEntries pitch periods (amplitudes) are held, the sub-score being
\* 0 otherwise.
C16_FormulasGuardedInQuick ==
    /\ FullFollowsFormulas
    /\ totalFrameCount >= QuickMinFrames =>
          LET quick == QuickAssess
          IN  /\ QuickCompositeFollowsFormula(quick)
              /\ quick.jitterScore =
                    IF Len(pitchPeriods) > QuickMinEntries
                    THEN Cap100(ScaledDistance(ComputeJitter(pitchPeriods), R(1), R(80)))
                    ELSE R(0)
              /\ quick.shimmerScore =
                    IF Len(cycleAmplitudes) > QuickMinEntries
                    THEN Cap100(ScaledDistance(ComputeShimmer(Map(cycleAmplitudes, R)),
                                               R(3), R(15)))
                    ELSE R(0)
              /\ quick.spectralShift =
                    IF spectralBaseline # Null /\ Len(spectralHistory) > QuickMinEntries
                    THEN Cap100(RDiv(ScaledDistance(
                             RMean(Map(LastOf(spectralHistory, QuickRecentFrames), CentroidOf)),
                             spectralBaseline[1].centroid, R(1)), R(10)))
                    ELSE R(0)

\* both assessments score a session in which every sub-score is positive
\* and the composite is below the cap
C16_Witness ==
    /\ totalFrameCount >= QuickMinFrames
    /\ speechFrameCount >= FullMinSpeechFrames
    /\ Len(f0History) > BASELINE_SPEECH_FRAMES
    /\ LET quick == QuickAssess
           full == FullAnalysis
       IN  /\ RLt(R(0), quick.f0DeviationScore)
           /\ quick.tremorScore > 0
           /\ RLt(R(0), quick.jitterScore)
           /\ RLt(R(0), quick.spectralShift)
           /\ RLt(R(0), quick.shimmerScore)
           /\ quick.voiceStress < 100
           /\ RLt(R(0), full.f0Score)
           /\ RLt(R(0), full.spectralScore)
           /\ full.voiceStressScore < 100

\* the sample the buffer holds at index j (from 0) once the samples of
\* pushed have been written one after the other from index 0, wrapping at
\* the capacity: the latest sample written there, 0 if none was
LatestAt(j) ==
    LET ks == {k \in 1..Len(pushed) : (k - 1) % ringBufferSize = j}
    IN  IF ks = {} THEN 0 ELSE pushed[CHOOSE k \in ks : \A m \in ks : m <= k]

\* C17: _fillRingBuffer writes the samples one after the other at the write
\* cursor, overwriting the oldest once the capacity is exceeded;
\* 0 <= ringBufferWritePos < ringBufferSize always; ringBufferFilled becomes
\* true exactly when the cursor first wraps to 0 and stays true until
\* clearAll or a re-allocation of the buffer.
C17_RingBufferPush ==
    /\ [](/\ 0 <= ringBufferWritePos
          /\ ringBufferWritePos < ringBufferSize
          /\ ringBuffer = Null => (ringBufferWritePos = 0 /\ ~ringBufferFilled)
          /\ ringBuffer # Null =>
                /\ Len(ringBuffer) = ringBufferSize
                /\ ringBufferWritePos = Len(pushed) % ringBufferSize
                /\ ringBufferFilled <=> Len(pushed) >= ringBufferSize
                /\ \A j \in 0..(ringBufferSize - 1) : ringBuffer[j + 1] = LatestAt(j))
    /\ [][(~ringBufferFilled /\ ringBufferFilled') =>
             /\ ringBufferWritePos' < ringBufferWritePos
             /\ Len(pushed) < ringBufferSize
             /\ Len(pushed') >= ringBufferSize]_vars
    /\ [][(ringBufferFilled /\ ~ringBufferFilled') =>
             \/ ClearAll
             \/ \E rate \in SampleRates : InitEngine(rate, "none")]_vars

\* the buffer has wrapped and its oldest samples are overwritten
C17_Witness ==
    /\ ringBufferFilled
    /\ ringBufferWritePos > 1
    /\ Len(pushed) > ringBufferSize
    /\ ringBuffer[1] = pushed[ringBufferSize + 1]
    /\ ringBuffer[ringBufferSize] = pushed[ringBufferSize]

\* every entry of s equals the first
IsConstant(s) == \A i \in 1..Len(s) : s[i] = s[1]

\* |s[i+1] - s[i]| summed over i = from .. Len(s) - 1
RECURSIVE AbsStepsFrom(_, _)
AbsStepsFrom(s, from) ==
    IF from >= Len(s) THEN R(0)
    ELSE LET step == RSub(s[from + 1], s[from])
         IN  RAdd(IF RLt(step, R(0)) THEN RSub(R(0), step) ELSE step, AbsStepsFrom(s, from + 1))

\* 100 * (mean absolute consecutive difference) / (mean) of a sequence of
\* at least two rationals with a positive sum
RelativePerturbation(s) ==
    RDiv(RMul(R(100), RDiv(AbsStepsFrom(s, 1), R(Len(s) - 1))),
         RDiv(RSum(s), R(Len(s))))

\* C18: _computeJitter and _computeShimmer return 0 for fewer than two
\* entries; a constant pitch-period sequence has relative jitter 0, a
\* constant positive amplitude sequence relative shimmer 0 and shimmer-dB 0;
\* otherwise relative jitter is 100 * (mean absolute consecutive
\* difference) / (mean period), and likewise relative shimmer.
C18_JitterShimmer ==
    LET jitter == ComputeJitter(pitchPeriods)
        shimmer == ComputeShimmer(Map(cycleAmplitudes, R))
        shimmerDB == ComputeShimmerDB(cycleAmplitudes)
    IN  /\ Len(pitchPeriods) < 2 => jitter = R(0)
        /\ Len(cycleAmplitudes) < 2 => (shimmer = R(0) /\ shimmerDB = R(0))
        /\ (Len(pitchPeriods) >= 2 /\ IsConstant(pitchPeriods)) => jitter = R(0)
        /\ (Len(cycleAmplitudes) >= 2 /\ IsConstant(cycleAmplitudes) /\ cycleAmplitudes[1] > 0) =>
              (shimmer = R(0) /\ shimmerDB = R(0))
        /\ Len(pitchPeriods) >= 2 =>
              /\ jitter = RelativePerturbation(pitchPeriods)
              /\ ~IsConstant(pitchPeriods) => RLt(R(0), jitter)
        /\ Len(cycleAmplitudes) >= 2 =>
              /\ shimmer = RelativePerturbation(Map(cycleAmplitudes, R))
              /\ ~IsConstant(cycleAmplitudes) => (RLt(R(0), shimmer) /\ RLt(R(0), shimmerDB))

\* the queues are full and not constant: the periods go down and up again
C18_Witness ==
    /\ Len(pitchPeriods) = VoiceQueueCap
    /\ RLt(pitchPeriods[2], pitchPeriods[1])
    /\ RLt(pitchPeriods[2], pitchPeriods[3])
    /\ cycleAmplitudes[1] < cycleAmplitudes[2]

\* a frequency within [F0_MIN, F0_MAX] = [75, 400] Hz
WithinVoiceRange(f) == ~RLt(f, R(75)) /\ ~RLt(R(400), f)

\* C19: _trackFundamentalFrequency returns the no-detection sentinel -1 or a
\* frequency within [75, 400] Hz, so every f0 of f0History and of
\* baselineF0Values is within [75, 400] and every entry of pitchPeriods is
\* sampleRate / f0 for such an f0.
C19_F0WithinRange ==
    /\ \A tick \in PitchTicks \cup Ticks :
          \/ TrackFundamentalFrequency(tick) = R(-1)
          \/ WithinVoiceRange(TrackFundamentalFrequency(tick))
    /\ \A i \in 1..Len(f0History) : WithinVoiceRange(f0History[i].f0)
    /\ \A i \in 1..Len(baselineF0Values) : WithinVoiceRange(baselineF0Values[i])
    /\ Len(pitchPeriods) = IMin(Len(f0History), VoiceQueueCap)
    /\ \A i \in 1..Len(pitchPeriods) :
          /\ RLt(R(0), pitchPeriods[i])
          /\ WithinVoiceRange(RDiv(R(sampleRate), pitchPeriods[i]))
          /\ RMul(pitchPeriods[i], f0History[Len(f0History) - Len(pitchPeriods) + i].f0)
                = R(sampleRate)

\* both limits were accepted, after frames with peaks outside the range
C19_Witness ==
    /\ totalFrameCount = MaxPitchFrames
    /\ speechFrameCount = MaxPitchFrames
    /\ Len(f0History) = 2
    /\ f0History[1].f0 = R(75)
    /\ f0History[2].f0 = R(400)
    /\ f0History[1].time = 2

\* an init call in which some step throws
InitFails ==
    \E rate \in SampleRates, failAt \in FailurePoints \ {"none"} : InitEngine(rate, failAt)

\* C20: when a step of initAudioContext or initFromMediaElement fails, the
\* error is rethrown to the caller and the engine is left inactive with
\* every audio node reference null, so that processAudioFrame calls are
\* no-ops until an init call succeeds.
C20_SetupFailureLeavesEngineInactive ==
    /\ [][InitFails =>
             /\ initOutcome' = "rejected"
             /\ ~isActive'
             /\ ~analyserNode'
             /\ audioNodes' = {}]_vars
    /\ [](initOutcome = "rejected" => (~isActive /\ ~analyserNode /\ audioNodes = {}))
    /\ [][(initOutcome = "rejected" /\ ProcessAudioFrame(RingTicks, MaxRingFrames)) =>
             UNCHANGED <<isActive, analyserNode, audioNodes, sampleRate, ringBuffer,
                         ringBufferWritePos, ringBufferFilled, vadVars, f0Vars,
                         spectralHistory, spectralBaseline, tremorHistory, vsaTimeline>>]_vars

\* an init call failed on an engine that had processed frames and buffered audio
C20_Witness ==
    /\ initOutcome = "rejected"
    /\ totalFrameCount > 0
    /\ totalFrameCount < MaxRingFrames
    /\ ringBufferWritePos > 0

\* the baseline statistics of the first BASELINE_SPEECH_FRAMES F0 values
\* stored since the last clearAll
BaselineSinceClear ==
    LET first == SubSeq(voicedSinceClear, 1, BASELINE_SPEECH_FRAMES)
        mean == RDiv(RSum(first), R(BASELINE_SPEECH_FRAMES))
        SqDev(v) == RMul(RSub(v, mean), RSub(v, mean))
    IN  [meanF0 |-> mean, varF0 |-> RDiv(RSum(Map(first, SqDev)), R(BASELINE_SPEECH_FRAMES))]

\* C22: clearAll in a session whose baseline was established makes
\* baselineEstablished false again; a new baseline is established only once
\* BASELINE_SPEECH_FRAMES further voiced F0 samples are stored, from those
\* samples alone; between two clearAll calls the flag goes from false to
\* true at most once and never back.
C22_BaselineAcrossReset ==
    /\ [][(ClearAll /\ baselineEstablished) =>
             (~baselineEstablished' /\ f0Baseline' = Null)]_vars
    /\ [](baselineEstablished <=> Len(voicedSinceClear) >= BASELINE_SPEECH_FRAMES)
    /\ [](baselineEstablished => f0Baseline = Some(BaselineSinceClear))
    /\ [][(baselineEstablished /\ ~baselineEstablished') => voicedSinceClear' = <<>>]_vars
    /\ [][(~baselineEstablished /\ baselineEstablished') =>
             (FrameProcessed /\ Len(voicedSinceClear') = BASELINE_SPEECH_FRAMES)]_vars

\* clearAll has just discarded a session whose baseline was established
C22_Witness ==
    /\ clearedBaseline
    /\ ~baselineEstablished
    /\ f0Baseline = Null
    /\ voicedSinceClear = <<>>
    /\ isActive

\* everything processAudioFrame, clearAll and the assessments work on
EngineData ==
    <<sampleRate, ringBuffer, ringBufferWritePos, ringBufferFilled, vadVars, f0Vars,
      spectralHistory, spectralBaseline, tremorHistory, vsaTimeline>>

\* C23: on an engine that is stopped (destroyed, or never successfully
\* initialised) processAudioFrame changes nothing, totalFrameCount included;
\* destroy clears no counter, history or baseline, so fullAnalysis after the
\* stop still reports on what was accumulated before it.
C23_StoppedEngineKeepsSession ==
    /\ [][((~isActive \/ ~analyserNode) /\ ProcessAudioFrame(RingTicks, MaxRingFrames)) =>
             UNCHANGED <<isActive, analyserNode, audioNodes, EngineData>>]_vars
    /\ [][Destroy => (~isActive' /\ ~analyserNode' /\ UNCHANGED EngineData)]_vars
    /\ []((~isActive /\ speechFrameCount >= FullMinSpeechFrames) =>
            LET full == FullAnalysis
            IN  /\ full # DefaultFullResult(full.speechMetrics.speechRatio)
                /\ full.vsaTimeline = vsaTimeline
                /\ full.speechMetrics.silencePauses = silencePauses
                /\ full.speechMetrics.totalDuration
                      = Q(RoundHalfUp(Q(10 * totalFrameCount, 30)), 10)
                /\ full.baselineEstablished = baselineEstablished)

\* an engine destroyed after a successful init, with enough speech frames
\* processed for a full report and audio still in the ring buffer
C23_Witness ==
    /\ ~isActive
    /\ initOutcome = "resolved"
    /\ speechFrameCount >= FullMinSpeechFrames
    /\ vsaTimeline # <<>>
    /\ ringBufferWritePos > 0

\* C24 as stated: every processed frame, speech or not, appends one
\* spectral snapshot, so that spectralHistory holds
\* min(SpectralCap, totalFrameCount) entries in every reachable state.
C24_SnapshotEveryFrame ==
    Len(spectralHistory) = IMin(SpectralCap, totalFrameCount)

\* C24, amended: a processed frame appends one spectral snapshot exactly
\* when VAD classifies it as speech, and a non-speech frame leaves
\* spectralHistory as it is, so that spectralHistory holds
\* min(SpectralCap, speechFrameCount) entries in every reachable state.
C24_SnapshotEverySpeechFrame ==
    /\ [](Len(spectralHistory) = IMin(SpectralCap, speechFrameCount))
    /\ [][FrameProcessed =>
             IF isSpeechActive'
             THEN /\ spectralHistory' # <<>>
                  /\ spectralHistory' =
                        LastOf(Append(spectralHistory, spectralHistory'[Len(spectralHistory')]),
                               SpectralCap)
             ELSE spectralHistory' = spectralHistory]_vars

\* silent frames were processed between speech frames, and the history has evicted
C24_Witness ==
    /\ silenceFrameCount > 0
    /\ speechFrameCount > SpectralCap
    /\ Len(spectralHistory) = SpectralCap
    /\ silencePauses > 0

\* C25: in every reachable state silencePauses exceeds the number of
\* recorded pause durations by one while a pause is open and equals it
\* otherwise; an open pause means that the last processed frame was not
\* speech and that some speech frame was processed; the frame counters add
\* up; the recorded durations sum to at most the number of silent frames.
C25_PauseBookkeeping ==
    /\ silencePauses - Len(pauseDurations) = (IF inSilencePause THEN 1 ELSE 0)
    /\ inSilencePause => (~isSpeechActive /\ speechFrameCount > 0)
    /\ totalFrameCount = speechFrameCount + silenceFrameCount
    /\ ISum(pauseDurations) <= silenceFrameCount

\* silence before the first speech, a closed pause of two frames and an open pause
C25_Witness ==
    /\ inSilencePause
    /\ silencePauses = 2
    /\ pauseDurations = <<2>>
    /\ silenceFrameCount = 4
    /\ speechFrameCount = 2

\* C28: in every reachable state pitchPeriods and cycleAmplitudes hold as
\* many entries as f0History, up to VoiceQueueCap; baselineF0Values holds as
\* many as f0History, up to BASELINE_SPEECH_FRAMES; the baseline is
\* established exactly when f0History holds BASELINE_SPEECH_FRAMES entries
\* or more; and f0History is no longer than speechFrameCount, which is at
\* most totalFrameCount.
C28_QueueCoupling ==
    /\ Len(pitchPeriods) = IMin(VoiceQueueCap, Len(f0History))
    /\ Len(cycleAmplitudes) = Len(pitchPeriods)
    /\ Len(baselineF0Values) = IMin(BASELINE_SPEECH_FRAMES, Len(f0History))
    /\ baselineEstablished <=> Len(f0History) >= BASELINE_SPEECH_FRAMES
    /\ Len(f0History) <= speechFrameCount
    /\ speechFrameCount <= totalFrameCount

\* more F0 samples than the queues hold, and a speech frame without one
C28_Witness ==
    /\ Len(f0History) > VoiceQueueCap
    /\ Len(f0History) > BASELINE_SPEECH_FRAMES
    /\ Len(f0History) < speechFrameCount

\* C26: _quickAssess and fullAnalysis change no engine state; called again
\* with no frame processed and no clearAll in between, each returns a result
\* equal to its previous one, and what a caller holds is what a new call
\* would return, so the calls do not affect later frames or assessments.
C26_AssessmentsReadOnly ==
    /\ [][(QuickAssessCall \/ FullAnalysisCall) =>
             UNCHANGED <<isActive, analyserNode, audioNodes, EngineData>>]_vars
    /\ [][(QuickAssessCall /\ quickFresh) => quickResult' = quickResult]_vars
    /\ [][(FullAnalysisCall /\ reportFresh) => report' = report]_vars
    /\ [](quickFresh => quickResult = Some(QuickAssess))
    /\ [](reportFresh => report = Some(FullAnalysis))

\* both assessments were called on a session with a baseline, and neither
\* returned its default result
C26_Witness ==
    /\ quickFresh
    /\ reportFresh
    /\ baselineEstablished
    /\ quickResult # Null
    /\ report # Null
    /\ quickResult[1].currentF0 > 0
    /\ report[1].confidenceLevel > 0

\* C27: once fullAnalysis has returned a report, no later processAudioFrame
\* or clearAll call changes any field of it, its vsaTimeline included.
C27_ReportIsSnapshot ==
    [][(report # Null /\ (FrameProcessed \/ ClearAll)) => report' = report]_vars

\* the counters, histories and baselines of the session
SessionData ==
    <<vadVars, f0Vars, spectralHistory, spectralBaseline, tremorHistory, vsaTimeline>>

\* C29: an init call on an engine that holds session data allocates a new
\* ring buffer (zeroed, cursor 0, not filled) and sets isActive, and leaves
\* the F0 history, both baselines, the capped queues, the timeline and every
\* frame and pause counter as they were; after it no tremor snapshot is
\* appended until more than one second of new audio was pushed.
C29_ReinitKeepsSession ==
    /\ [][Start =>
             /\ isActive'
             /\ ringBuffer' = [i \in 1..ringBufferSize |-> 0]
             /\ ringBufferWritePos' = 0
             /\ ~ringBufferFilled'
             /\ ~TremorGate'
             /\ UNCHANGED SessionData]_vars
    /\ [][(FrameProcessed /\ tremorHistory' # tremorHistory) => Len(pushed) > sampleRate]_vars

\* a session with a baseline, evicting queues and tremor snapshots, on a
\* ring buffer allocated anew
C29_Witness ==
    /\ isActive
    /\ pushed = <<>>
    /\ ringBufferWritePos = 0
    /\ tremorHistory # <<>>
    /\ baselineEstablished
    /\ Len(f0History) > VoiceQueueCap
    /\ spectralBaseline # Null

\* the confidence fullAnalysis reports for a number of speech frames, a
\* baseline flag and a number of tremor snapshots
ConfidenceOf(speech, established, tremorCount) ==
    IF speech < FullMinSpeechFrames THEN 0
    ELSE IMin(100, (100 * speech + ConfidenceSpeechFrames) \div (2 * ConfidenceSpeechFrames)
                   + (IF established THEN 40 ELSE 0)
                   + (IF tremorCount > ConfidenceTremorCount THEN 10 ELSE 0))

\* C30: the confidenceLevel of fullAnalysis is 0 below FullMinSpeechFrames
\* speech frames and then the capped, rounded sum of the speech, baseline
\* and tremor points; no operation other than clearAll lowers it.
C30_ConfidenceMonotone ==
    /\ [](FullAnalysis.confidenceLevel
            = ConfidenceOf(speechFrameCount, baselineEstablished, Len(tremorHistory)))
    /\ [][ClearAll \/
             ConfidenceOf(speechFrameCount', baselineEstablished', Len(tremorHistory'))
                >= ConfidenceOf(speechFrameCount, baselineEstablished, Len(tremorHistory))]_vars

\* a report with speech, baseline and tremor points, after a silent frame
\* and with the tremor history at its cap
C30_Witness ==
    /\ baselineEstablished
    /\ silenceFrameCount > 0
    /\ Len(tremorHistory) = TremorCap
    /\ FullAnalysis.confidenceLevel
          = ConfidenceOf(speechFrameCount, TRUE, ConfidenceTremorCount + 1)
    /\ FullAnalysis.confidenceLevel > 50
====
